---- MODULE Spec2Model ----
(***************************************************************************)
(* A model of font-engine-rs: the sfnt table loader                        *)
(* (truetype_loader/mod.rs) and the instructing glyph scaler with its      *)
(* bytecode interpreter (interp_instructor.rs, numerics.rs, lib.rs).       *)
(*                                                                         *)
(* Conventions.                                                            *)
(*  - Vec<T> is a sequence; the source's index i is the model's i + 1.      *)
(*  - In the loader the Option<T> table fields of SfntFont are BOOLEAN      *)
(*    (Some / None): the bodies of the tables are taken to be well formed,  *)
(*    only their presence and the order of their decoding are modelled.     *)
(*    The font the scaler borrows holds the tables the scaler reads, an     *)
(*    Option<T> being <<>> (None) or <<v>> (Some(v)).                       *)
(*  - A u32 stack word is held as the i32 with the same 32 bits (TLC's     *)
(*    integers are 32 bits wide), see the word arithmetic below.           *)
(*  - A panic (index out of bounds, arithmetic overflow in a build with    *)
(*    overflow checks, ...) ends the process: the result "panic" is final. *)
(***************************************************************************)
EXTENDS Integers, Sequences, FiniteSets, TLC

VARIABLES
    \* ---- SfntFont::from_binary ----
    reader,             \* the byte source: [first_byte, tags] (input, never written)
    ld_pc,              \* position in from_binary
    ld_i,               \* index of the running for loop
    table_directory,    \* the Vec<TableDirectoryEntry> being built, as its tags
    fnt,                \* the Option fields of the SfntFont under construction
    ld_result,          \* what from_binary returned: "none" while running
    \* ---- InstructedGlyphScaler and Interp ----
    font,               \* the loaded SfntFont the scaler borrows (input)
    build,              \* the build: [overflow_checks] (input)
    scaler,             \* output_dpi, point_size, units_per_em of the scaler
    phase,              \* which call is running, see ScalerPhases
    state,              \* InstructedGlyphScaler.state: the InterpState
    stack,              \* Interp.stack, top last
    pc,                 \* Interp.pc
    instructions,       \* the argument of the running Interp::interpret
    points,             \* Interp.points
    original_points,    \* Interp.original_points
    call,               \* glyph_index and offset of the running scale_glyph
    ret,                \* what the last finished new / scale_glyph returned
    \* ---- history, written by no code ----
    snapshot,           \* the InterpState at the moment new returned Ok
    calls,              \* the finished scale_glyph calls: glyph_index, offset, ret
    \* ---- a function called on its own ----
    fun_name,           \* the function called: "none" when there is none
    fun_arg,            \* its arguments (input, never written)
    fun_res             \* what it returned: <<>> until it has

ld_vars == <<reader, ld_pc, ld_i, table_directory, fnt, ld_result>>

sc_vars == <<font, build, scaler, phase, state, stack, pc, instructions, points,
             original_points, call, ret, snapshot, calls>>

fun_vars == <<fun_name, fun_arg, fun_res>>

vars == <<reader, ld_pc, ld_i, table_directory, fnt, ld_result,
          font, build, scaler, phase, state, stack, pc, instructions, points,
          original_points, call, ret, snapshot, calls,
          fun_name, fun_arg, fun_res>>

(***************************************************************************)
(* Table tags                                                              *)
(***************************************************************************)
\* table_tag_code! with the characters packed in the opposite order
table_tag_code_le(a, b, c, d) == d * 16777216 + c * 65536 + b * 256 + a

table_tag_code(a, b, c, d) == a * 16777216 + b * 65536 + c * 256 + d

CharGlyphMapping          == table_tag_code(99, 109, 97, 112)    \* 'cmap'
GlyphData                 == table_tag_code(103, 108, 121, 102)  \* 'glyf'
FontHeader                == table_tag_code(104, 101, 97, 100)   \* 'head'
LocationIndex             == table_tag_code(108, 111, 99, 97)    \* 'loca'
MaxProfile                == table_tag_code(109, 97, 120, 112)   \* 'maxp'
Nameing                   == table_tag_code(110, 97, 109, 101)   \* 'name'
ControlValue              == table_tag_code(99, 118, 116, 32)    \* 'cvt '
FontProgram               == table_tag_code(102, 112, 103, 109)  \* 'fpgm'
GridFitAndScanConvertProc == table_tag_code(103, 97, 115, 112)   \* 'gasp'
HorizDevMetric            == table_tag_code(104, 100, 109, 120)  \* 'hdmx'

(***************************************************************************)
(* Word arithmetic.  The interpreter's stack holds u32 words and F26d6     *)
(* wraps an i32.  TLC's integers are 32 bits wide, so a u32 word w is held *)
(* as the i32 with the same bits (w - 2^32 when w >= 2^31), and the        *)
(* wrapping operations are computed on 16-bit halves.                      *)
(***************************************************************************)
I32Max == 2147483647
I32Min == -I32Max - 1

Lo16(a) == a % 65536
Hi16(a) == a \div 65536

\* the i32 whose upper half is h (mod 2^16) and whose lower half is l
FromHalves(h, l) ==
    LET h16 == h % 65536
    IN (IF h16 >= 32768 THEN h16 - 65536 ELSE h16) * 65536 + l

\* a byte or u16 read from the program or a table, as a word
WordOfNat(n) == n

\* i32 wrapping_add, and whether the exact sum leaves the i32 range
WrapAdd(a, b) ==
    LET l == Lo16(a) + Lo16(b)
    IN FromHalves(Hi16(a) + Hi16(b) + (l \div 65536), l % 65536)

AddOverflows(a, b) ==
    \/ a >= 0 /\ b >= 0 /\ a > I32Max - b
    \/ a < 0 /\ b < 0 /\ a < I32Min - b

WrapNeg(a) == IF a = I32Min THEN I32Min ELSE -a

WrapSub(a, b) == IF b = I32Min THEN WrapAdd(a, I32Min) ELSE WrapAdd(a, -b)

SubOverflows(a, b) ==
    \/ a >= 0 /\ b < 0 /\ a > I32Max + b
    \/ a < 0 /\ b > 0 /\ a < I32Min + b

\* the low 16 bits of x * y, for x, y in 0..65535 (byte products, so that no
\* intermediate value leaves TLC's integers)
MulLo16(x, y) ==
    LET m == (x \div 256) * (y % 256) + (x % 256) * (y \div 256)
    IN ((m % 256) * 256 + (x % 256) * (y % 256)) % 65536

\* bits 16..31 of x * y, for x, y in 0..65535
MulHi16(x, y) ==
    LET m  == (x \div 256) * (y % 256) + (x % 256) * (y \div 256)
        lo == (m % 256) * 256 + (x % 256) * (y % 256)
    IN ((x \div 256) * (y \div 256) + (m \div 256) + (lo \div 65536)) % 65536

\* i32 wrapping_mul: the low 32 bits of the product
WrapMul(a, b) ==
    LET al == Lo16(a)
        bl == Lo16(b)
        ah == Hi16(a) % 65536
        bh == Hi16(b) % 65536
    IN FromHalves(MulHi16(al, bl) + MulLo16(ah, bl) + MulLo16(al, bh),
                  MulLo16(al, bl))

MulOverflows(a, b) ==
    CASE a = 0 \/ b = 0 -> FALSE
      [] a > 0 /\ b > 0 -> a > I32Max \div b
      [] a > 0 /\ b < 0 -> b < (I32Min + a - 1) \div a
      [] a < 0 /\ b > 0 -> a < (I32Min + b - 1) \div b
      [] OTHER          -> \/ a = I32Min
                           \/ b = I32Min
                           \/ (-a) > I32Max \div (-b)

\* i32 division truncates toward zero; the caller excludes b = 0 and
\* I32Min / -1, on which the division panics in every build
TruncDivPos(a, c) ==
    IF a < 0 /\ a % c # 0 THEN (a \div c) + 1 ELSE a \div c

TruncDiv(a, b) ==
    CASE b > 0       -> TruncDivPos(a, b)
      [] b = I32Min  -> IF a = I32Min THEN 1 ELSE 0
      [] OTHER       -> -TruncDivPos(a, -b)

DivPanics(a, b) == b = 0 \/ (a = I32Min /\ b = -1)

\* v << 6 on an i32: the low 26 bits move up, the rest is lost
Shl6(v) ==
    LET l == v % 67108864
    IN (IF l >= 33554432 THEN l - 67108864 ELSE l) * 64

\* u32 order on the i32 images
ULess(a, b) == IF (a < 0) = (b < 0) THEN a < b ELSE b < 0

UMax(a, b) == IF ULess(a, b) THEN b ELSE a
UMin(a, b) == IF ULess(a, b) THEN a ELSE b

\* usize positions: every position from 2^31 - 1 on is held as 2^31 - 1; all
\* of them lie past the end of any program of the model (usize is 64 bits)
AddPos(p, k) == IF k > I32Max - p THEN I32Max ELSE p + k

(***************************************************************************)
(* Sequence helpers: Vec::insert and Vec::push                             *)
(***************************************************************************)
\* Vec::insert(index, e); the caller checks index <= len (it panics otherwise)
VecInsert(v, index, e) ==
    SubSeq(v, 1, index) \o <<e>> \o SubSeq(v, index + 1, Len(v))

\* all sequences without repetition over S, of length at most n
RECURSIVE InjSeqs(_, _)
InjSeqs(S, n) ==
    IF n = 0 THEN {<<>>}
    ELSE LET shorter == InjSeqs(S, n - 1)
             longest == {t \in shorter : Len(t) = n - 1}
         IN shorter \cup
            UNION { { Append(t, x) : x \in S \ {t[i] : i \in 1..Len(t)} } :
                    t \in longest }

(***************************************************************************)
(* SfntFont::from_binary                                                   *)
(***************************************************************************)
\* bounds of the loader's inputs
MaxTables == 5

\* the tags a directory is drawn from: every tag from_binary treats in a way
\* of its own that the directory order can affect, and one it skips.  Only
\* tags that are variants of TableTag: the transmute of any other u32 to the
\* enum (TableDirectoryEntry::from_binary) is undefined behaviour.
DirectoryTags ==
    {MaxProfile, FontHeader, LocationIndex, GlyphData, HorizDevMetric,
     CharGlyphMapping, Nameing}

\* first bytes of the stream: 0x00 (version 0x00010000), 't' ("true"), 'O'
FirstBytes == {0, 116, 79}

EmptyFont ==
    [cmap_table |-> FALSE, cval_table |-> FALSE, fprg_table |-> FALSE,
     gasp_table |-> FALSE, glyf_table |-> FALSE, loca_table |-> FALSE,
     hdmx_table |-> FALSE, head_table |-> FALSE, maxp_table |-> FALSE]

num_tables == Len(reader.tags)

\* lines 376-380: the five header fields are read and none is examined
ReadHeader ==
    /\ ld_pc = "header"
    /\ ld_pc' = "directory"
    /\ ld_i' = 0
    /\ UNCHANGED <<reader, table_directory, fnt, ld_result>>
    /\ UNCHANGED sc_vars
    /\ UNCHANGED fun_vars

\* the index Vec::insert is called with for a tag, or -1 for Vec::push
InsertIndex(tag) ==
    CASE tag = MaxProfile    -> 0
      [] tag = FontHeader    -> 1
      [] tag = LocationIndex -> 2
      [] OTHER               -> -1

\* lines 382-390: one turn of the directory loop
ReadDirectoryEntry ==
    /\ ld_pc = "directory"
    /\ ld_i < num_tables
    /\ LET tbe == reader.tags[ld_i + 1]
           at  == InsertIndex(tbe)
       IN IF at > Len(table_directory)
          THEN \* Vec::insert: "insertion index should be <= len"
               /\ ld_pc' = "done"
               /\ ld_result' = "panic"
               /\ UNCHANGED <<ld_i, table_directory>>
          ELSE /\ table_directory' =
                     IF at = -1 THEN Append(table_directory, tbe)
                                ELSE VecInsert(table_directory, at, tbe)
               /\ ld_i' = ld_i + 1
               /\ UNCHANGED <<ld_pc, ld_result>>
    /\ UNCHANGED <<reader, fnt>>
    /\ UNCHANGED sc_vars
    /\ UNCHANGED fun_vars

\* lines 392-407: the font is built with every table field None
BuildFont ==
    /\ ld_pc = "directory"
    /\ ld_i = num_tables
    /\ ld_pc' = "tables"
    /\ ld_i' = 0
    /\ fnt' = EmptyFont
    /\ UNCHANGED <<reader, table_directory, ld_result>>
    /\ UNCHANGED sc_vars
    /\ UNCHANGED fun_vars

\* the io::Error a table's arm returns when a table it needs is still None,
\* or "" when the arm goes on to decode the table
MissingDependency(tag, f) ==
    CASE tag = GlyphData /\ ~f.maxp_table     -> "Must load maxp table before glyf table!"
      [] tag = GlyphData /\ ~f.loca_table     -> "Must load loca table before glyf table!"
      [] tag = LocationIndex /\ ~f.maxp_table -> "Must load maxp table before loca table!"
      [] tag = LocationIndex /\ ~f.head_table -> "Must load head table before loca table!"
      [] tag = HorizDevMetric /\ ~f.maxp_table -> "Must load maxp table before hdmx table!"
      [] OTHER -> ""

\* the font after the arm of `tag` has stored its table
StoreTable(tag, f) ==
    CASE tag = CharGlyphMapping          -> [f EXCEPT !.cmap_table = TRUE]
      [] tag = ControlValue              -> [f EXCEPT !.cval_table = TRUE]
      [] tag = FontProgram               -> [f EXCEPT !.fprg_table = TRUE]
      [] tag = GridFitAndScanConvertProc -> [f EXCEPT !.gasp_table = TRUE]
      [] tag = GlyphData                 -> [f EXCEPT !.glyf_table = TRUE]
      [] tag = LocationIndex             -> [f EXCEPT !.loca_table = TRUE]
      [] tag = HorizDevMetric            -> [f EXCEPT !.hdmx_table = TRUE]
      [] tag = FontHeader                -> [f EXCEPT !.head_table = TRUE]
      [] tag = MaxProfile                -> [f EXCEPT !.maxp_table = TRUE]
      [] OTHER                           -> f

\* lines 408-447: one turn of the table loop
ProcessTable ==
    /\ ld_pc = "tables"
    /\ ld_i < Len(table_directory)
    /\ LET tde == table_directory[ld_i + 1]
           err == MissingDependency(tde, fnt)
       IN IF err # ""
          THEN /\ ld_pc' = "done"
               /\ ld_result' = err
               /\ UNCHANGED <<ld_i, fnt>>
          ELSE /\ fnt' = StoreTable(tde, fnt)
               /\ ld_i' = ld_i + 1
               /\ UNCHANGED <<ld_pc, ld_result>>
    /\ UNCHANGED <<reader, table_directory>>
    /\ UNCHANGED sc_vars
    /\ UNCHANGED fun_vars

\* line 448: Ok(fnt)
ReturnFont ==
    /\ ld_pc = "tables"
    /\ ld_i = Len(table_directory)
    /\ ld_pc' = "done"
    /\ ld_result' = "Ok"
    /\ UNCHANGED <<reader, ld_i, table_directory, fnt>>
    /\ UNCHANGED sc_vars
    /\ UNCHANGED fun_vars

(***************************************************************************)
(* f32.  Only the f32 values the interpreter can hold are needed: integers *)
(* converted from i32 or u32 words, and the constant 17/16.  An f32 is     *)
(* held as [m, e], the value m * 2^e with m odd, or m = 0 and e = 0.       *)
(***************************************************************************)
RECURSIVE Normal(_, _)
Normal(m, e) ==
    IF m = 0 THEN [m |-> 0, e |-> 0]
    ELSE IF m % 2 = 0 THEN Normal(m \div 2, e + 1)
    ELSE [m |-> m, e |-> e]

RECURSIVE BitLen(_)
BitLen(n) == IF n = 0 THEN 0 ELSE 1 + BitLen(n \div 2)

\* n >= 0 as f32: rounded to 24 significant bits, ties to even
F32OfNat(n) ==
    IF n < 16777216 THEN Normal(n, 0)
    ELSE LET k  == BitLen(n) - 24
             q  == n \div 2^k
             r  == n % 2^k
             up == r > 2^(k - 1) \/ (r = 2^(k - 1) /\ q % 2 = 1)
         IN Normal(IF up THEN q + 1 ELSE q, k)

\* `as f32` on an i32
F32OfI32(n) ==
    CASE n = I32Min -> [m |-> -1, e |-> 31]
      [] n < 0      -> LET f == F32OfNat(-n) IN [m |-> -f.m, e |-> f.e]
      [] OTHER      -> F32OfNat(n)

\* `as f32` on a u32, given as its i32 image w
F32OfU32(w) ==
    IF w >= 0 THEN F32OfNat(w)
    ELSE LET q  == 16777216 + (w \div 256)
             r  == w % 256
             up == r > 128 \/ (r = 128 /\ q % 2 = 1)
         IN Normal(IF up THEN q + 1 ELSE q, 8)

\* f32::floor followed by `as i32`, which saturates
FloorI32(f) ==
    IF f.e < 0 THEN f.m \div 2^(-f.e)
    ELSE IF f.e >= 31 THEN (IF f.m > 0 THEN I32Max ELSE I32Min)
    ELSE IF f.m > I32Max \div 2^f.e THEN I32Max
    ELSE IF -f.m > I32Max \div 2^f.e THEN I32Min
    ELSE f.m * 2^f.e

\* (v.fract().abs() * 64.0).ceil() as i32
FractCeil64(f) ==
    IF f.e >= 0 THEN 0
    ELSE LET d  == 2^(-f.e)
             fr == (IF f.m < 0 THEN -f.m ELSE f.m) % d
         IN (fr * 64 + d - 1) \div d

\* x | (f & 0x4f) for x a multiple of 64 and f in 0..64
OrMask4f(x, f) ==
    IF f = 64 THEN (IF (x \div 64) % 2 = 0 THEN x + 64 ELSE x)
    ELSE x + (f % 16)

\* impl From<f32> for F26d6, numerics.rs lines 17-23
F26d6_from_f32(v) == OrMask4f(Shl6(FloorI32(v)), FractCeil64(v))

\* impl From<i32> for F26d6, numerics.rs lines 11-15
F26d6_from_i32(v) == Shl6(v)

\* impl Into<f32> for F26d6
F26d6_into_f32(x) == F32OfI32(x)

\* F26d6::floor and F26d6::ceil: self.0 & 0xffff_ffc0
F26d6_floor(x) == x - (x % 64)
F26d6_ceil(x) == x - (x % 64)

(***************************************************************************)
(* InterpState                                                             *)
(***************************************************************************)
Vector(x, y) == [x |-> x, y |-> y]

F32Zero == F32OfNat(0)
F32One  == F32OfNat(1)

\* InterpState::new, interp_instructor.rs lines 75-96
InterpState_new(cv_table) ==
    [auto_flip           |-> TRUE,
     cvt_cutin           |-> [m |-> 17, e |-> -4],
     delta_base          |-> 9,
     delta_shift         |-> 3,
     dual_prj_vec        |-> Vector(F32Zero, F32Zero),
     freedom_vec         |-> Vector(F32One, F32Zero),
     instruct_ctrl       |-> FALSE,
     loopv               |-> 1,
     min_dist            |-> F32One,
     project_vec         |-> Vector(F32One, F32Zero),
     round_state         |-> 1,
     rp                  |-> <<0, 0, 0>>,
     scan_ctrl           |-> FALSE,
     single_width_cut_in |-> F32Zero,
     single_width_value  |-> F32Zero,
     zp                  |-> <<1, 1, 1>>,
     twilight_zone       |-> <<>>,
     cv_table            |-> cv_table]

(***************************************************************************)
(* ScalerError and the outcomes of one interpreter step                    *)
(***************************************************************************)
Outcome(kind, p, op) == [kind |-> kind, pc |-> p, op |-> op]

Continue                  == Outcome("Continue", 0, 0)
StackUnderflow(p)         == Outcome("StackUnderflow", p, 0)
InvalidInstruction(p, op) == Outcome("InvalidInstruction", p, op)
InvalidGlyph              == Outcome("InvalidGlyph", 0, 0)
MissingTable(tag)         == Outcome("MissingTable", 0, tag)
\* a panic of the process
Panic                     == Outcome("panic", 0, 0)
\* a step whose f32 arithmetic (sqrt, division) this model does not compute
Unmodelled                == Outcome("unmodelled", 0, 0)
\* no call has returned yet
NoReturn                  == Outcome("none", 0, 0)

\* the Interp after an arm of the match: its stack, pc and state, and how the
\* arm ended
Machine(stk, p, st, out) == [stack |-> stk, pc |-> p, state |-> st, out |-> out]

(***************************************************************************)
(* Interp::interpret, interp_instructor.rs lines 170-356                   *)
(***************************************************************************)
\* the opcodes whose arm is empty
NoOpCodes ==
    {\h27, \h3c, \h2b, \h25, \h73, \h74, \h75, \h5d, \h71, \h72, \h59, \h2d,
     \h57, \h2c, \h80, \h82, \h81, \h46, \h47, \h89, \h39, \h0f, \h30, \h31,
     \h2a, \h2e, \h2f, \h3e, \h3f, \h26, \h3a, \h3b, \h56, \h45, \h7d, \h7a,
     \h43, \h3d, \h18, \h19, \h7c, \h77, \h85, \h8d, \h48, \h1d, \h86, \h87,
     \h08, \h09, \h34, \h35, \h32, \h33, \h38, \h36, \h37, \h06, \h07, \h76,
     \h29, \h70, \h44, \h42}
    \cup (\hc0..\hdf) \cup (\he0..\hff) \cup (\h6c..\h6f) \cup (\h68..\h6b)

\* sign_extend, lines 100-102
sign_extend(v) == 0

\* the while loop of the IF arm, lines 233-235: the pc it ends with, or -1
\* when it indexes instructions past the end
RECURSIVE IfSkip(_, _)
IfSkip(instr, p) ==
    IF p >= Len(instr) THEN -1
    ELSE IF instr[p + 1] # \h1b \/ instr[p + 1] # \h59 THEN IfSkip(instr, p + 1)
    ELSE p

\* the while loop of the ELSE arm, lines 206-208: the pc it ends with, or -1
RECURSIVE ElseSkip(_, _)
ElseSkip(instr, p) ==
    IF p >= Len(instr) THEN -1
    ELSE IF instr[p + 1] # \h59 THEN ElseSkip(instr, p + 1)
    ELSE p

\* a relative jump that lands on the jump itself once line 353 has added 1
JumpInPlace(p, offset, bld) == p - 1

\* self.pc += (offset - 1) as usize, lines 244-246: the new pc, or -1 when
\* offset - 1 panics (offset = 0 in a build with overflow checks).  Without
\* the checks 0 - 1 is 2^32 - 1; usize is taken to be 64 bits wide.
JumpTo(p, offset, bld) ==
    IF offset = 0 THEN (IF bld.overflow_checks THEN -1 ELSE I32Max)
    ELSE IF offset < 0 THEN I32Max
    ELSE AddPos(p, offset - 1)

\* Vector::project, lines 46-49, for the two unit vectors of the axes; for any
\* other vector the result is <<>>: this model does not compute it
Project(v, pt) ==
    IF v = Vector(F32One, F32Zero) THEN <<pt.x>>
    ELSE IF v = Vector(F32Zero, F32One) THEN <<pt.y>>
    ELSE <<>>

\* GlyphScaler::uniform_scale, lines 392-394, then `as u32` (line 269):
\* point_size * output_dpi / (72 * units_per_em) truncated, for positive
\* integer parameters
uniform_scale_as_u32(sc) ==
    (sc.point_size * sc.output_dpi) \div (72 * sc.units_per_em)

\* push_bytes, lines 152-159, entered with self.pc = p
push_bytes(n, instr, stk, p, st) ==
    IF n >= 1 /\ p + n >= Len(instr) THEN Machine(stk, p, st, Panic)
    ELSE Machine(stk \o [i \in 1..n |-> instr[p + i + 1]], p + n, st, Continue)

\* push_words, lines 160-167: i runs over 2n positions and instructions[i+1]
\* is read at each
push_words(n, instr, stk, p, st) ==
    IF n >= 1 /\ p + 2 * n + 1 >= Len(instr) THEN Machine(stk, p, st, Panic)
    ELSE Machine(stk \o [i \in 1..(2 * n) |->
                           sign_extend(instr[p + i + 1] * 256 + instr[p + i + 2])],
                 p + 2 * n, st, Continue)

\* the arm of the match for the opcode at p, lines 178-352: the Interp before
\* `self.pc += 1` of line 353.  pts and opts are Interp.points and
\* Interp.original_points.
Arm(instr, stk, p, st, pts, opts, sc, bld) ==
    LET op     == instr[p + 1]
        n      == Len(stk)
        a      == stk[n]
        b      == stk[n - 1]
        Drop(k) == SubSeq(stk, 1, n - k)
        Go(s)  == Machine(s, p, st, Continue)
        Set(s, t) == Machine(s, p, t, Continue)
        End(o) == Machine(stk, p, st, o)
        Under  == End(StackUnderflow(p))
        Bool(c) == IF c THEN 1 ELSE 0
        fa     == F26d6_from_i32(a)
        fb     == F26d6_from_i32(b)
        Pop1(r) == IF n < 1 THEN Under ELSE r
        Pop2(r) == IF n < 2 THEN Under ELSE r
    IN
    CASE op \in NoOpCodes -> Go(stk)
      [] op \in {\h7f, \h21, \h7e, \h4f} -> Pop1(Go(Drop(1)))
      [] op = \h64 -> Pop1(IF fa = I32Min /\ bld.overflow_checks THEN End(Panic)
                           ELSE Go(Append(Drop(1), IF fa < 0 THEN WrapNeg(fa) ELSE fa)))
      [] op = \h60 -> Pop2(IF AddOverflows(fa, fb) /\ bld.overflow_checks THEN End(Panic)
                           ELSE Go(Append(Drop(2), WrapAdd(fa, fb))))
      [] op = \h5a -> Pop2(Go(Append(Drop(2), Bool(a = 1 /\ b = 1))))
      [] op = \h67 -> Pop1(Go(Append(Drop(1), F26d6_ceil(fa))))
      [] op = \h22 -> Go(<<>>)
      [] op = \h24 -> Go(Append(stk, n))
      [] op = \h62 -> Pop2(IF DivPanics(fa, fb) THEN End(Panic)
                           ELSE Go(Append(Drop(2), TruncDiv(fa, fb))))
      [] op = \h20 -> IF n < 1 THEN End(Panic) ELSE Go(Append(stk, a))
      [] op = \h1b -> LET q == ElseSkip(instr, p)
                      IN IF q = -1 THEN End(Panic)
                         ELSE Machine(stk, q + 1, st, Continue)
      [] op = \h54 -> Pop2(Go(Append(Drop(2), Bool(a = b))))
      [] op = \h4e -> Set(stk, [st EXCEPT !.auto_flip = FALSE])
      [] op = \h4d -> Set(stk, [st EXCEPT !.auto_flip = TRUE])
      [] op = \h66 -> Pop1(Go(Append(Drop(1), F26d6_floor(fa))))
      [] op = \h88 -> Pop1(Go(Append(Drop(1), 0)))
      [] op = \h0d -> Go(stk \o <<F26d6_from_f32(st.freedom_vec.x),
                                  F26d6_from_f32(st.freedom_vec.y)>>)
      [] op = \h0c -> Go(stk \o <<F26d6_from_f32(st.project_vec.x),
                                  F26d6_from_f32(st.project_vec.y)>>)
      [] op = \h52 -> Pop2(Go(Append(Drop(2), Bool(ULess(b, a)))))
      [] op = \h53 -> Pop2(Go(Append(Drop(2), Bool(~ULess(a, b)))))
      [] op = \h58 -> Pop1(IF a = 0
                           THEN LET q == IfSkip(instr, p)
                                IN IF q = -1 THEN End(Panic)
                                   ELSE Machine(Drop(1), q + 1, st, Continue)
                           ELSE Go(Drop(1)))
      [] op = \h8e -> End(Panic)
      [] op = \h1c -> Pop1(LET q == JumpTo(p, a, bld)
                           IN IF q = -1 THEN End(Panic)
                              ELSE Machine(Drop(1), q, st, Continue))
      [] op = \h79 -> Pop2(IF a = 0
                           THEN LET q == JumpTo(p, b, bld)
                                IN IF q = -1 THEN End(Panic)
                                   ELSE Machine(Drop(2), q, st, Continue)
                           ELSE Go(Drop(2)))
      [] op = \h78 -> Pop2(IF a = 1
                           THEN LET q == JumpTo(p, b, bld)
                                IN IF q = -1 THEN End(Panic)
                                   ELSE Machine(Drop(2), q, st, Continue)
                           ELSE Go(Drop(2)))
      [] op = \h50 -> Pop2(Go(Append(Drop(2), Bool(ULess(a, b)))))
      [] op = \h51 -> Pop2(Go(Append(Drop(2), Bool(~ULess(b, a)))))
      [] op = \h8b -> Pop2(Go(Append(Drop(2), UMax(a, b))))
      [] op \in {\h49, \h4a} ->
             Pop2(LET zone == IF op = \h49 THEN pts ELSE opts
                  IN IF a < 0 \/ a >= Len(zone) \/ b < 0 \/ b >= Len(zone)
                     THEN End(Panic)
                     ELSE LET d1 == Project(st.project_vec, zone[a + 1])
                              d2 == Project(st.project_vec, zone[b + 1])
                          IN IF d1 = <<>> THEN End(Unmodelled)
                             ELSE Go(Append(Drop(2),
                                     F26d6_from_f32(F32OfI32(d2[1] - d1[1])))))
      [] op = \h8c -> Pop2(Go(Append(Drop(2), UMin(a, b))))
      [] op = \h4b -> Go(Append(stk, uniform_scale_as_u32(sc)))
      [] op = \h4c -> Go(Append(stk, sc.point_size))
      [] op = \h63 -> Pop2(IF MulOverflows(fa, fb) /\ bld.overflow_checks THEN End(Panic)
                           ELSE Go(Append(Drop(2), WrapMul(fa, fb))))
      [] op = \h65 -> Pop1(IF fa = I32Min /\ bld.overflow_checks THEN End(Panic)
                           ELSE Go(Append(Drop(1), WrapNeg(fa))))
      [] op = \h55 -> Pop2(Go(Append(Drop(2), Bool(a # b))))
      [] op = \h5c -> Pop1(Go(Append(Drop(1), Bool(a = 0))))
      [] op = \h40 -> IF p + 1 >= Len(instr) THEN End(Panic)
                      ELSE push_bytes(instr[p + 2], instr, stk, p + 1, st)
      [] op = \h41 -> IF p + 1 >= Len(instr) THEN End(Panic)
                      ELSE push_words(instr[p + 2], instr, stk, p + 1, st)
      [] op = \h5b -> Pop2(Go(Append(Drop(2), Bool(a = 1 \/ b = 1))))
      [] op \in \hb0..\hb7 -> push_bytes(op - \haf, instr, stk, p, st)
      [] op \in \hb8..\hbf -> push_words(op - \hb7, instr, stk, p, st)
      [] op = \h8a -> IF n < 3 THEN End(Panic)
                      ELSE Go([stk EXCEPT ![n] = stk[n - 2], ![n - 2] = stk[n]])
      [] op = \h5e -> Pop1(Set(Drop(1), [st EXCEPT !.delta_base = a]))
      [] op = \h5f -> Pop1(Set(Drop(1), [st EXCEPT !.delta_shift = a]))
      [] op = \h0b -> Pop2(Set(Drop(2), [st EXCEPT !.freedom_vec =
                             Vector(F26d6_into_f32(fa), F26d6_into_f32(fb))]))
      [] op = \h04 -> Set(stk, [st EXCEPT !.freedom_vec = Vector(F32Zero, F32One)])
      [] op = \h05 -> Set(stk, [st EXCEPT !.freedom_vec = Vector(F32One, F32Zero)])
      [] op = \h0e -> Set(stk, [st EXCEPT !.freedom_vec = st.project_vec])
      [] op = \h17 -> Pop1(Set(Drop(1), [st EXCEPT !.loopv = a]))
      [] op = \h1a -> Pop1(Set(Drop(1), [st EXCEPT !.min_dist = F26d6_into_f32(fa)]))
      [] op = \h0a -> Pop2(Set(Drop(2), [st EXCEPT !.project_vec =
                             Vector(F26d6_into_f32(fa), F26d6_into_f32(fb))]))
      [] op = \h02 -> Set(stk, [st EXCEPT !.project_vec = Vector(F32Zero, F32One)])
      [] op = \h03 -> Set(stk, [st EXCEPT !.project_vec = Vector(F32One, F32Zero)])
      [] op = \h10 -> Pop1(Set(Drop(1), [st EXCEPT !.rp[1] = a]))
      [] op = \h11 -> Pop1(Set(Drop(1), [st EXCEPT !.rp[2] = a]))
      [] op = \h12 -> Pop1(Set(Drop(1), [st EXCEPT !.rp[3] = a]))
      [] op = \h1f -> Pop1(Set(Drop(1), [st EXCEPT !.single_width_value = F32OfU32(a)]))
      [] op = \h1e -> Pop1(Set(Drop(1), [st EXCEPT !.single_width_cut_in = F32OfU32(a)]))
      [] op = \h61 -> Pop2(IF SubOverflows(fa, fb) /\ bld.overflow_checks THEN End(Panic)
                           ELSE Go(Append(Drop(2), WrapSub(fa, fb))))
      [] op = \h00 -> Set(stk, [st EXCEPT !.freedom_vec = Vector(F32Zero, F32One),
                                          !.project_vec = Vector(F32Zero, F32One)])
      [] op = \h01 -> Set(stk, [st EXCEPT !.freedom_vec = Vector(F32Zero, F32One),
                                          !.project_vec = Vector(F32One, F32Zero)])
      [] op = \h23 -> IF n < 2 THEN End(Panic)
                      ELSE Go([stk EXCEPT ![n] = stk[n - 1], ![n - 1] = stk[n]])
      [] op = \h13 -> Pop1(Set(Drop(1), [st EXCEPT !.zp[1] = a]))
      [] op = \h14 -> Pop1(Set(Drop(1), [st EXCEPT !.zp[2] = a]))
      [] op = \h15 -> Pop1(Set(Drop(1), [st EXCEPT !.zp[3] = a]))
      [] op = \h16 -> Pop1(Set(Drop(1), [st EXCEPT !.zp = <<a, a, a>>]))
      [] OTHER -> End(InvalidInstruction(p, op))

(***************************************************************************)
(* Glyph::from_truetype_with_points, lib.rs lines 71-133.                  *)
(* A point is [x, y]; a stored point (GlyphPoint) has on_curve as well.    *)
(* Coordinates are integers; the glyphs of this model keep the coordinates *)
(* of one glyph of one parity, so that the f32 mean (a + b) / 2.0 of line  *)
(* 112 is the integer (a + b) \div 2.                                      *)
(***************************************************************************)
Point(x, y) == [x |-> x, y |-> y]

\* a Line with its ends exchanged
LineBack(a, b) == <<"Line", b, a>>

Line(a, b) == <<"Line", a, b>>
Quad(a, c, b) == <<"Quad", a, c, b>>

\* wrap, lines 71-78, for start < end (every call of the assembler: it calls
\* wrap inside `while i < endpoint` with last_endpoint < i)
wrap(i, start, end) ==
    LET len == end - start
    IN IF i >= end THEN start + ((i - start) % len)
       ELSE IF i < start THEN start + ((start - i) % len)
       ELSE i

\* line 95, while !spoints[i].on_curve { i += 1 }: the i it ends with, or -1
\* when it indexes spoints past the end
RECURSIVE SkipOffCurve(_, _)
SkipOffCurve(spoints, i) ==
    IF i >= Len(spoints) THEN -1
    ELSE IF ~spoints[i + 1].on_curve THEN SkipOffCurve(spoints, i + 1)
    ELSE i

\* the locals of the assembler: curves, points, i, last_point, ia, ib, and
\* whether an index was out of bounds
Asm(curves, pts, i, last_point, ia, ib, panic) ==
    [curves |-> curves, points |-> pts, i |-> i, last_point |-> last_point,
     ia |-> ia, ib |-> ib, panic |-> panic]

\* lines 111-120: while !spoints[ib].on_curve { ... }; a = points[ia] and
\* b = points[ib] throughout
RECURSIVE MidpointLoop(_, _, _, _)
MidpointLoop(spoints, last_endpoint, endpoint, A) ==
    IF A.panic \/ spoints[A.ib + 1].on_curve THEN A
    ELSE LET a   == A.points[A.ia + 1]
             b   == A.points[A.ib + 1]
             mid == Point((a.x + b.x) \div 2, (a.y + b.y) \div 2)
             im  == Len(A.points)
             pts == Append(A.points, mid)
             i   == A.i + 1
             ib  == wrap(i, last_endpoint, endpoint)
         IN MidpointLoop(spoints, last_endpoint, endpoint,
               Asm(Append(A.curves, Quad(A.last_point, A.ia, im)), pts, i, im,
                   A.ib, ib, ib >= Len(pts) \/ ib >= Len(spoints)))

\* lines 97-124: while i < endpoint { ... }
RECURSIVE ContourLoop(_, _, _, _)
ContourLoop(spoints, last_endpoint, endpoint, A) ==
    IF A.panic \/ A.i >= endpoint THEN A
    ELSE IF A.i >= Len(spoints) THEN [A EXCEPT !.panic = TRUE]
    ELSE IF spoints[A.i + 1].on_curve
    THEN ContourLoop(spoints, last_endpoint, endpoint,
            Asm(Append(A.curves, Line(A.last_point, A.i)), A.points, A.i + 1,
                A.i, A.ia, A.ib, FALSE))
    ELSE IF A.i >= Len(A.points) THEN [A EXCEPT !.panic = TRUE]
    ELSE LET ia == A.i
             i  == A.i + 1
             ib == wrap(i, last_endpoint, endpoint)
         IN IF ib >= Len(A.points) \/ ib >= Len(spoints)
            THEN [A EXCEPT !.panic = TRUE]
            ELSE IF spoints[ib + 1].on_curve
            THEN ContourLoop(spoints, last_endpoint, endpoint,
                    Asm(Append(A.curves, Quad(A.last_point, ia, ib)), A.points,
                        i, ib, ia, ib, FALSE))
            ELSE LET M == MidpointLoop(spoints, last_endpoint, endpoint,
                              Asm(A.curves, A.points, i, A.last_point, ia, ib, FALSE))
                 IN IF M.panic THEN M
                    ELSE ContourLoop(spoints, last_endpoint, endpoint,
                            Asm(Append(M.curves, Quad(M.last_point, M.ia, M.ib)),
                                M.points, M.i, M.ib, M.ia, M.ib, FALSE))

\* lines 92-127: for &ep in end_points_of_contours, from the k-th on
RECURSIVE Contours(_, _, _, _)
Contours(g, k, last_endpoint, A) ==
    IF A.panic \/ k > Len(g.end_points_of_contours) THEN A
    ELSE LET endpoint == g.end_points_of_contours[k] + 1
             first    == SkipOffCurve(g.points, last_endpoint)
         IN IF first = -1 THEN [A EXCEPT !.panic = TRUE]
            ELSE LET C == ContourLoop(g.points, last_endpoint, endpoint,
                              Asm(A.curves, A.points, first + 1, first, 0, 0, FALSE))
                 IN IF C.panic THEN C
                    ELSE Contours(g, k + 1, endpoint,
                            Asm(Append(C.curves, Line(C.last_point, last_endpoint)),
                                C.points, 0, 0, 0, 0, FALSE))

\* lines 81-133: [kind |-> "Some", curves, points], "None" for a glyph that
\* is not Simple, "panic" when an index is out of bounds
from_truetype_with_points(ttf_glyph, cpoints) ==
    IF ttf_glyph.kind # "Simple"
    THEN [kind |-> "None", curves |-> <<>>, points |-> <<>>]
    ELSE LET A == Contours(ttf_glyph, 1, 0, Asm(<<>>, cpoints, 0, 0, 0, 0, FALSE))
         IN IF A.panic THEN [kind |-> "panic", curves |-> <<>>, points |-> <<>>]
            ELSE [kind |-> "Some", curves |-> A.curves, points |-> A.points]

(***************************************************************************)
(* InstructedGlyphScaler, interp_instructor.rs lines 361-411                *)
(***************************************************************************)
\* Option<T>
None == <<>>
Some(v) == <<v>>
IsSome(o) == o # <<>>
Unwrap(o) == o[1]

\* how many scale_glyph calls a behaviour holds
MaxCalls == 2

ScalerPhases ==
    {"unbuilt",     \* InstructedGlyphScaler::new has not been called
     "fpgm",        \* new is interpreting the font program (line 381)
     "prep",        \* new is interpreting the CVT program (line 385)
     "ready",       \* new has returned Ok; no scale_glyph is running
     "glyph",       \* scale_glyph is interpreting a glyph's instructions (line 400)
     "failed",      \* new has returned Err: there is no scaler
     "panicked",    \* the process has panicked
     "unmodelled"}  \* a step this model does not compute was reached

NoScaler == [output_dpi |-> 0, point_size |-> 0, units_per_em |-> 0]
NoCall   == [glyph_index |-> 0, offset |-> Point(0, 0)]
NoState  == InterpState_new(<<>>)

\* Interp::new, lines 116-128, followed by the entry into interpret
EnterInterp(prog, pts) ==
    /\ stack' = <<>>
    /\ pc' = 0
    /\ instructions' = prog
    /\ points' = pts
    /\ original_points' = pts

\* the Interp is dropped
LeaveInterp ==
    /\ stack' = <<>>
    /\ pc' = 0
    /\ instructions' = <<>>
    /\ points' = <<>>
    /\ original_points' = <<>>

\* new has returned Ok(slf), line 387
BecomeReady(st) ==
    /\ phase' = "ready"
    /\ snapshot' = st
    /\ LeaveInterp

\* the arguments new is called with
ScalerArgs ==
    {[dpi |-> 72, point_size |-> 72], [dpi |-> 144, point_size |-> 72],
     [dpi |-> 72, point_size |-> 12]}

\* InstructedGlyphScaler::new, lines 372-387, up to the first interpret
New ==
    /\ phase = "unbuilt"
    /\ \E args \in ScalerArgs :
        IF ~IsSome(font.glyf_table) \/ ~IsSome(font.head_table) \/ ~IsSome(font.cval_table)
        THEN /\ phase' = "failed"
             /\ ret' = IF ~IsSome(font.glyf_table) THEN MissingTable(GlyphData)
                       ELSE IF ~IsSome(font.head_table) THEN MissingTable(FontHeader)
                       ELSE MissingTable(ControlValue)
             /\ UNCHANGED <<scaler, state, stack, pc, instructions, points,
                            original_points, snapshot>>
        ELSE /\ scaler' = [output_dpi   |-> args.dpi,
                           point_size   |-> args.point_size,
                           units_per_em |-> Unwrap(font.head_table).units_per_em]
             /\ state' = InterpState_new(Unwrap(font.cval_table))
             /\ ret' = ret
             /\ IF IsSome(font.fprg_table)
                THEN /\ phase' = "fpgm"
                     /\ EnterInterp(Unwrap(font.fprg_table), <<>>)
                     /\ UNCHANGED snapshot
                ELSE IF IsSome(font.prep_table)
                THEN /\ phase' = "prep"
                     /\ EnterInterp(Unwrap(font.prep_table), <<>>)
                     /\ UNCHANGED snapshot
                ELSE BecomeReady(InterpState_new(Unwrap(font.cval_table)))
    /\ UNCHANGED <<font, build, call, calls>>
    /\ UNCHANGED ld_vars
    /\ UNCHANGED fun_vars

\* the scaled points of line 398: p.x as f32 * scale, for a scale
\* point_size * output_dpi / (72 * units_per_em) that is a whole number
ScaledPoints(g, sc) ==
    LET scale == (sc.point_size * sc.output_dpi) \div (72 * sc.units_per_em)
    IN [i \in 1..Len(g.points) |-> Point(g.points[i].x * scale, g.points[i].y * scale)]

\* the scale of line 396 is a whole number
WholeScale(sc) == (sc.point_size * sc.output_dpi) % (72 * sc.units_per_em) = 0

\* the offsets scale_glyph is called with
Offsets == {Point(0, 0), Point(2, 4)}

\* a finished scale_glyph call
Finished(c, r) == [glyph_index |-> c.glyph_index, offset |-> c.offset, ret |-> r]

\* scale_glyph, lines 395-400 and 407-409, up to the call of interpret
ScaleGlyph ==
    /\ phase = "ready"
    /\ Len(calls) < MaxCalls
    /\ \E glyph_index \in 0..Len(Unwrap(font.glyf_table)), offset \in Offsets :
        LET glyphs == Unwrap(font.glyf_table)
            c      == [glyph_index |-> glyph_index, offset |-> offset]
        IN IF glyph_index >= Len(glyphs)
           THEN /\ phase' = "panicked"
                /\ ret' = Panic
                /\ UNCHANGED <<call, calls, stack, pc, instructions, points,
                               original_points>>
           ELSE IF glyphs[glyph_index + 1].kind = "Simple" /\ ~WholeScale(scaler)
           THEN \* the scaled points are not integers
                /\ phase' = "unmodelled"
                /\ ret' = Unmodelled
                /\ UNCHANGED <<call, calls, stack, pc, instructions, points,
                               original_points>>
           ELSE IF glyphs[glyph_index + 1].kind = "Simple"
           THEN /\ phase' = "glyph"
                /\ call' = c
                /\ EnterInterp(glyphs[glyph_index + 1].instructions,
                               ScaledPoints(glyphs[glyph_index + 1], scaler))
                /\ UNCHANGED <<ret, calls>>
           ELSE /\ ret' = InvalidGlyph
                /\ calls' = Append(calls, Finished(c, InvalidGlyph))
                /\ UNCHANGED <<phase, call, stack, pc, instructions, points,
                               original_points>>
    /\ UNCHANGED <<font, build, scaler, state, snapshot>>
    /\ UNCHANGED ld_vars
    /\ UNCHANGED fun_vars

\* one turn of the while loop of interpret, lines 171-354, and what its
\* callers do when it returns Err (the ? of lines 381, 385 and 400)
Step ==
    /\ phase \in {"fpgm", "prep", "glyph"}
    /\ pc < Len(instructions)
    /\ LET M == Arm(instructions, stack, pc, state, points, original_points,
                    scaler, build)
       IN CASE M.out = Continue ->
                 /\ stack' = M.stack
                 /\ pc' = AddPos(M.pc, 1)
                 /\ state' = M.state
                 /\ UNCHANGED <<phase, instructions, points, original_points,
                                ret, calls>>
            [] M.out = Panic ->
                 /\ phase' = "panicked"
                 /\ ret' = Panic
                 /\ UNCHANGED <<stack, pc, state, instructions, points,
                                original_points, calls>>
            [] M.out = Unmodelled ->
                 /\ phase' = "unmodelled"
                 /\ ret' = Unmodelled
                 /\ UNCHANGED <<stack, pc, state, instructions, points,
                                original_points, calls>>
            [] OTHER ->
                 /\ phase' = IF phase = "glyph" THEN "ready" ELSE "failed"
                 /\ ret' = M.out
                 /\ calls' = IF phase = "glyph"
                             THEN Append(calls, Finished(call, M.out))
                             ELSE calls
                 /\ state' = M.state
                 /\ LeaveInterp
    /\ UNCHANGED <<font, build, scaler, call, snapshot>>
    /\ UNCHANGED ld_vars
    /\ UNCHANGED fun_vars

\* Ok(Glyph) of scale_glyph
OkGlyph(g) == [kind |-> "Ok", pc |-> 0, op |-> 0, curves |-> g.curves, points |-> g.points]

\* interpret returns Ok(()), line 355, and its caller goes on: new with the
\* CVT program or Ok(slf) (lines 383-387), scale_glyph with lines 402-406
Return ==
    /\ phase \in {"fpgm", "prep", "glyph"}
    /\ pc >= Len(instructions)
    /\ CASE phase = "fpgm" /\ IsSome(font.prep_table) ->
              /\ phase' = "prep"
              /\ EnterInterp(Unwrap(font.prep_table), <<>>)
              /\ UNCHANGED <<ret, calls, snapshot>>
         [] phase = "fpgm" /\ ~IsSome(font.prep_table) ->
              /\ BecomeReady(state)
              /\ UNCHANGED <<ret, calls>>
         [] phase = "prep" ->
              /\ BecomeReady(state)
              /\ UNCHANGED <<ret, calls>>
         [] phase = "glyph" ->
              LET moved == [i \in 1..Len(points) |->
                              Point(points[i].x + call.offset.x,
                                    points[i].y + call.offset.y)]
                  g == from_truetype_with_points(
                           Unwrap(font.glyf_table)[call.glyph_index + 1], moved)
              IN IF g.kind = "panic"
                 THEN /\ phase' = "panicked"
                      /\ ret' = Panic
                      /\ UNCHANGED <<stack, pc, instructions, points,
                                     original_points, calls, snapshot>>
                 ELSE LET r == IF g.kind = "Some" THEN OkGlyph(g) ELSE InvalidGlyph
                      IN /\ phase' = "ready"
                         /\ ret' = r
                         /\ calls' = Append(calls, Finished(call, r))
                         /\ LeaveInterp
                         /\ UNCHANGED snapshot
    /\ UNCHANGED <<font, build, scaler, state, call>>
    /\ UNCHANGED ld_vars
    /\ UNCHANGED fun_vars

ScalerNext ==
    \/ New
    \/ ScaleGlyph
    \/ Step
    \/ Return

(***************************************************************************)
(* Inputs of the scaler: fonts, their programs, the build                  *)
(***************************************************************************)
\* all concatenations of at most n of the byte strings in T
RECURSIVE ProgramsOver(_, _)
ProgramsOver(T, n) ==
    IF n = 0 THEN {<<>>}
    ELSE LET shorter == ProgramsOver(T, n - 1)
         IN shorter \cup {q \o t : q \in shorter, t \in T}

\* GlyphPoint
GlyphPoint(x, y, on_curve) == [x |-> x, y |-> y, on_curve |-> on_curve]

\* GlyphDescription::Simple: a triangle carrying the program prog
SimpleGlyph(prog) ==
    [kind |-> "Simple", end_points_of_contours |-> <<2>>, instructions |-> prog,
     points |-> <<GlyphPoint(0, 0, TRUE), GlyphPoint(10, 0, TRUE),
                  GlyphPoint(10, 10, TRUE)>>]

\* GlyphDescription::None
NoneGlyph ==
    [kind |-> "None", end_points_of_contours |-> <<>>, instructions |-> <<>>,
     points |-> <<>>]

\* the fields of SfntFont the scaler and the claims read
Font(glyphs, fprg, prep, max_stack) ==
    [glyf_table |-> Some(glyphs),
     head_table |-> Some([units_per_em |-> 72]),
     cval_table |-> Some(<<>>),
     fprg_table |-> fprg,
     prep_table |-> prep,
     maxp_table |-> Some([max_stack |-> max_stack])]

Builds == [overflow_checks : BOOLEAN]

\* programs of control flow: PUSHB[1] 0, PUSHB[1] 42, IF, ELSE, EIF
MaxCtlTokens == 5
CtlTokens == {<<\hb0, 0>>, <<\hb0, 42>>, <<\h58>>, <<\h1b>>, <<\h59>>}
CtlFonts ==
    {Font(<<SimpleGlyph(prog)>>, None, None, 4) :
        prog \in ProgramsOver(CtlTokens, MaxCtlTokens)}

\* programs of stack and arithmetic opcodes: PUSHB[3] 7 8 9, PUSHB[1] 1, ADD,
\* DUP, SWAP, ROLL, POP, EQ and the undefined opcode 0x28; and the sums
\* PUSHB[3] a b c, ADD, ADD
MaxArithTokens == 3
ArithTokens ==
    {<<\hb2, 7, 8, 9>>, <<\hb0, 1>>, <<\h60>>, <<\h20>>, <<\h23>>, <<\h8a>>,
     <<\h21>>, <<\h54>>, <<\h28>>}
SumBytes == {0, 7, 8, 9, 255}
SumPrograms == {<<\hb2, a, b, c, \h60, \h60>> : a, b, c \in SumBytes}
ArithFonts ==
    {Font(<<SimpleGlyph(prog)>>, None, None, max_stack) :
        prog \in ProgramsOver(ArithTokens, MaxArithTokens) \cup SumPrograms,
        max_stack \in {2, 4}}
    \cup {Font(<<SimpleGlyph(<<>>)>>, fprg, prep, 2) :
        fprg \in {None, Some(<<\hb2, 7, 8, 9>>)},
        prep \in {None, Some(<<\hb2, 7, 8, 9>>)}}

\* programs that read and write the graphics state: GPV, SPVTCA[y], JROF, POP,
\* FLIPOFF; and programs that measure: PUSHB[1] 0, PUSHB[1] 3, MD[0], MD[1],
\* SPVTCA[y].  The font program and the CVT program are absent, empty, write
\* the state, or fail.
MaxStateTokens == 4
StateTokens == {<<\h0c>>, <<\h02>>, <<\h79>>, <<\h21>>, <<\h4e>>}
MaxMeasureTokens == 3
MeasureTokens == {<<\hb0, 0>>, <<\hb0, 3>>, <<\h49>>, <<\h4a>>, <<\h02>>}
StartPrograms ==
    {<<None, None>>, <<Some(<<\hb0, 1>>), Some(<<\h02>>)>>,
     <<None, Some(<<\h4d>>)>>, <<Some(<<\h21>>), None>>, <<None, Some(<<\h28>>)>>}
StateFonts ==
    {Font(<<SimpleGlyph(prog), NoneGlyph>>, sp[1], sp[2], 4) :
        prog \in ProgramsOver(StateTokens, MaxStateTokens)
                 \cup ProgramsOver(MeasureTokens, MaxMeasureTokens),
        sp \in StartPrograms}
    \cup {[Font(<<SimpleGlyph(<<>>)>>, None, None, 4) EXCEPT !.glyf_table = None],
          [Font(<<SimpleGlyph(<<>>)>>, None, None, 4) EXCEPT !.head_table = None],
          [Font(<<SimpleGlyph(<<>>)>>, None, None, 4) EXCEPT !.cval_table = None]}

(***************************************************************************)
(* Specifications                                                          *)
(***************************************************************************)
\* no function is called on its own
FunIdle ==
    /\ fun_name = "none"
    /\ fun_arg = <<>>
    /\ fun_res = <<>>

\* no scaler exists
ScalerUnbuilt ==
    /\ font = Font(<<>>, None, None, 0)
    /\ scaler = NoScaler
    /\ phase = "unbuilt"
    /\ state = NoState
    /\ stack = <<>>
    /\ pc = 0
    /\ instructions = <<>>
    /\ points = <<>>
    /\ original_points = <<>>
    /\ call = NoCall
    /\ ret = NoReturn
    /\ snapshot = NoState
    /\ calls = <<>>

ScalerIdle ==
    /\ build = [overflow_checks |-> TRUE]
    /\ ScalerUnbuilt

\* from_binary is not running
LoaderIdle ==
    /\ reader = [first_byte |-> 0, tags |-> <<>>]
    /\ ld_pc = "done"
    /\ ld_i = 0
    /\ table_directory = <<>>
    /\ fnt = EmptyFont
    /\ ld_result = "none"

LoaderInit ==
    /\ reader \in [first_byte : FirstBytes, tags : InjSeqs(DirectoryTags, MaxTables)]
    /\ ld_pc = "header"
    /\ ld_i = 0
    /\ table_directory = <<>>
    /\ fnt = EmptyFont
    /\ ld_result = "none"
    /\ ScalerIdle
    /\ FunIdle

LoaderNext ==
    \/ ReadHeader
    \/ ReadDirectoryEntry
    \/ BuildFont
    \/ ProcessTable
    \/ ReturnFont

SpecLoader == LoaderInit /\ [][LoaderNext]_vars

\* the scaler before InstructedGlyphScaler::new, for a font of the set fonts
ScalerInit(fonts) ==
    /\ font \in fonts
    /\ build \in Builds
    /\ scaler = NoScaler
    /\ phase = "unbuilt"
    /\ state = NoState
    /\ stack = <<>>
    /\ pc = 0
    /\ instructions = <<>>
    /\ points = <<>>
    /\ original_points = <<>>
    /\ call = NoCall
    /\ ret = NoReturn
    /\ snapshot = NoState
    /\ calls = <<>>
    /\ LoaderIdle
    /\ FunIdle

CtlInit   == ScalerInit(CtlFonts)
ArithInit == ScalerInit(ArithFonts)
StateInit == ScalerInit(StateFonts)

SpecCtl   == CtlInit /\ [][ScalerNext]_vars
SpecArith == ArithInit /\ [][ScalerNext]_vars
SpecState == StateInit /\ [][ScalerNext]_vars

(***************************************************************************)
(* Properties of the loader                                                *)
(***************************************************************************)
DirectoryHas(tag) == \E i \in 1..Len(reader.tags) : reader.tags[i] = tag

MustLoadErrors ==
    {"Must load maxp table before glyf table!",
     "Must load loca table before glyf table!",
     "Must load maxp table before loca table!",
     "Must load head table before loca table!",
     "Must load maxp table before hdmx table!"}

\* C1: for every order of the directory entries of a font that contains
\* maxp, head, loca and glyf, the tables are processed maxp first, then head,
\* then loca, then the rest; so maxp and head are parsed when loca is
\* processed, loca and maxp are parsed when glyf is processed, and the load
\* never ends in a "Must load ... before ..." error or a panic of the
\* reordering.
C1_ReorderedProcessing ==
    (DirectoryHas(MaxProfile) /\ DirectoryHas(FontHeader)
        /\ DirectoryHas(LocationIndex) /\ DirectoryHas(GlyphData))
    => /\ ld_result \notin MustLoadErrors \cup {"panic"}
       /\ ld_pc = "tables" =>
            SubSeq(table_directory, 1, 3) = <<MaxProfile, FontHeader, LocationIndex>>
       /\ fnt.loca_table => (fnt.maxp_table /\ fnt.head_table)
       /\ fnt.glyf_table => (fnt.loca_table /\ fnt.maxp_table)

\* C2: from_binary applied to a stream whose first byte is not 0x00 fails
\* (with a malformed-data error), and it fails before any table is decoded:
\* the load never returns Ok and no table field of the font is ever populated.
C2_BadVersionRejected ==
    reader.first_byte # 0
    => /\ fnt = EmptyFont
       /\ ld_result # "Ok"

(***************************************************************************)
(* Properties of the interpreter.  The TrueType instruction set gives the  *)
(* length of an instruction and the matching of IF, ELSE and EIF.          *)
(***************************************************************************)
Running == phase \in {"fpgm", "prep", "glyph"} /\ pc < Len(instructions)

Opcode == instructions[pc + 1]

\* the number of bytes of the instruction at p, its immediates included
InstructionLength(instr, p) ==
    LET op == instr[p + 1]
    IN CASE op \in \hb0..\hb7 -> 1 + (op - \haf)
         [] op \in \hb8..\hbf -> 1 + 2 * (op - \hb7)
         [] op = \h40 /\ p + 1 < Len(instr) -> 2 + instr[p + 2]
         [] op = \h41 /\ p + 1 < Len(instr) -> 2 + 2 * instr[p + 2]
         [] OTHER -> 1

\* the positions of the instructions of a program
RECURSIVE InstructionStarts(_, _)
InstructionStarts(instr, p) ==
    IF p >= Len(instr) THEN {}
    ELSE {p} \cup InstructionStarts(instr, p + InstructionLength(instr, p))

\* the position, from p on, of the EIF (or, with else_too, the ELSE) that
\* closes the IF enclosing p, nested IF ... EIF pairs skipped; -1 if none
RECURSIVE Matching(_, _, _, _)
Matching(instr, p, depth, else_too) ==
    IF p >= Len(instr) THEN -1
    ELSE LET op == instr[p + 1]
         IN CASE op = \h58 -> Matching(instr, p + 1, depth + 1, else_too)
              [] op = \h59 -> IF depth = 0 THEN p
                              ELSE Matching(instr, p + 1, depth - 1, else_too)
              [] op = \h1b /\ depth = 0 /\ else_too -> p
              [] OTHER -> Matching(instr, p + InstructionLength(instr, p),
                                   depth, else_too)

IfElseScenario == <<\hb0, 0, \h58, \h1b, \hb0, 42, \h59>>

\* C3: IF pops one value; when it is zero execution goes on just past the
\* matching ELSE or EIF, nested IF/EIF pairs counted; and the program
\* PUSHB[1] 0, IF, ELSE, PUSHB[1] 42, EIF ends with 42 on top of the stack.
C3_IfFalseSkipsToMatching ==
    /\ [][(Running /\ Opcode = \h58 /\ Len(stack) >= 1
            /\ stack[Len(stack)] = 0
            /\ Matching(instructions, pc + 1, 0, TRUE) # -1)
          => (/\ phase' = phase
              /\ stack' = SubSeq(stack, 1, Len(stack) - 1)
              /\ pc' = Matching(instructions, pc + 1, 0, TRUE) + 1)]_vars
    /\ []((instructions = IfElseScenario /\ pc >= Len(instructions))
          => (phase = "glyph" /\ stack = <<42>>))

\* the ELSE at p closes the true arm of an IF of the program, and the program
\* has no ELSE and no jump before p: p is reached only by executing the
\* instructions before it in sequence, the true arm of that IF among them
ClosesTrueArm(instr, p) ==
    /\ \E q \in InstructionStarts(instr, 0) :
        /\ q < p
        /\ instr[q + 1] = \h58
        /\ Matching(instr, q + 1, 0, TRUE) = p
    /\ \A q \in InstructionStarts(instr, 0) :
        q < p => instr[q + 1] \notin {\h1b, \h1c, \h78, \h79}

\* C4: when ELSE is reached after the true arm of an IF, execution resumes
\* at the instruction immediately after the matching EIF; no instruction
\* after that EIF is skipped.
C4_ElseResumesAfterEif ==
    [][(Running /\ Opcode = \h1b
          /\ pc \in InstructionStarts(instructions, 0)
          /\ ClosesTrueArm(instructions, pc)
          /\ Matching(instructions, pc + 1, 0, FALSE) # -1)
        => (/\ phase' = phase
            /\ stack' = stack
            /\ pc' = Matching(instructions, pc + 1, 0, FALSE) + 1)]_vars

\* C5: for all bytes a, b, c the program PUSHB[3] a b c, ADD, ADD holds
\* a, b, c after the push and ends with a + b + c on top of the stack, at a
\* depth 2 less than after the push.
C5_PushAddAdd ==
    \A a, b, c \in SumBytes :
        (phase = "glyph" /\ instructions = <<\hb2, a, b, c, \h60, \h60>>)
        => /\ pc = 4 => stack = <<a, b, c>>
           /\ pc >= Len(instructions) => stack = <<a + b + c>>

\* C6: when the interpreter starts on a glyph's instructions the graphics
\* state equals the snapshot taken when the CVT program had finished,
\* whatever earlier glyph programs did and however they ended.
C6_StateResetPerGlyph ==
    [][(phase = "ready" /\ phase' = "glyph") => state' = snapshot]_vars

\* C7: two successive calls of scale_glyph with the same glyph index and
\* offset return the same result.
C7_SameCallSameResult ==
    \A i \in 1..(Len(calls) - 1) :
        (calls[i].glyph_index = calls[i + 1].glyph_index
            /\ calls[i].offset = calls[i + 1].offset)
        => calls[i].ret = calls[i + 1].ret

\* the number of stack entries an opcode needs
Needs(op) ==
    CASE op \in {\h7f, \h21, \h7e, \h4f, \h64, \h67, \h66, \h88, \h58, \h1c,
                 \h65, \h5c, \h5e, \h5f, \h17, \h1a, \h10, \h11, \h12, \h1f,
                 \h1e, \h13, \h14, \h15, \h16, \h20} -> 1
      [] op \in {\h60, \h5a, \h62, \h54, \h52, \h53, \h79, \h78, \h50, \h51,
                 \h8b, \h49, \h4a, \h8c, \h63, \h55, \h5b, \h0b, \h0a, \h61,
                 \h23} -> 2
      [] op = \h8a -> 3
      [] OTHER -> 0

\* C8: an opcode executed with fewer stack entries than it needs (DUP, SWAP
\* and ROLL too) makes interpret return StackUnderflow(pc), pc the position
\* of the opcode; the process does not crash.
C8_UnderflowIsAnError ==
    [][(Running /\ Len(stack) < Needs(Opcode))
        => (/\ ret' = StackUnderflow(pc)
            /\ phase' = IF phase = "glyph" THEN "ready" ELSE "failed")]_vars

\* a stack word is a valid index into a Vec of n elements
ValidIndex(w, n) == 0 <= w /\ w < n

\* C9: when MD[0] or MD[1] pops a point index that is not smaller than the
\* number of points of the glyph being hinted, scale_glyph returns
\* InvalidGlyph and the scaler is ready for the next glyph.
C9_MeasureOutOfRangeIsInvalidGlyph ==
    [][(phase = "glyph" /\ pc < Len(instructions) /\ Opcode \in {\h49, \h4a}
          /\ Len(stack) >= 2
          /\ (~ValidIndex(stack[Len(stack)], Len(points))
              \/ ~ValidIndex(stack[Len(stack) - 1], Len(points))))
        => (/\ phase' = "ready"
            /\ ret' = InvalidGlyph
            /\ calls' = Append(calls, Finished(call, InvalidGlyph)))]_vars

\* C10: while the font program, the CVT program or a glyph program runs, the
\* depth of the stack is at most MaxProfile.max_stack.
C10_StackWithinMaxStack ==
    phase \in {"fpgm", "prep", "glyph"}
    => Len(stack) <= Unwrap(font.maxp_table).max_stack

(***************************************************************************)
(* More programs: opcodes that write the reference points, the zone        *)
(* pointers and the vectors; pushes of words, MPPEM, MUL, DIV and opcodes   *)
(* whose arm is empty                                                      *)
(***************************************************************************)
\* PUSHB[1] 1, PUSHB[1] 5, SRP0..2, SZP0..2, SZPS, SVTCA[y], SVTCA[x]
MaxGraphicsTokens == 2
GraphicsTokens ==
    {<<\hb0, 1>>, <<\hb0, 5>>, <<\h10>>, <<\h11>>, <<\h12>>, <<\h13>>,
     <<\h14>>, <<\h15>>, <<\h16>>, <<\h00>>, <<\h01>>}

\* PUSHW[1] 0x0001, PUSHW[1] 0xffff, NPUSHW 1 0x0001, EIF (does nothing),
\* MPPEM, PUSHB[1] 1, PUSHB[2] 64 64, MDAP[0], WS, MUL, DIV
MaxPushTokens == 2
PushTokens ==
    {<<\hb8, 0, 1>>, <<\hb8, 255, 255>>, <<\h41, 1, 0, 1>>, <<\h59>>, <<\h4b>>,
     <<\hb0, 1>>, <<\hb1, 64, 64>>, <<\h2e>>, <<\h42>>, <<\h63>>, <<\h62>>}

\* a font of 1000 units per em without outlines, whose CVT program is prog
FontOf1000(prog) ==
    [Font(<<NoneGlyph>>, None, Some(prog), 4) EXCEPT
        !.head_table = Some([units_per_em |-> 1000])]

OpsFonts ==
    {Font(<<SimpleGlyph(prog)>>, None, None, 4) :
        prog \in ProgramsOver(GraphicsTokens, MaxGraphicsTokens)
                 \cup ProgramsOver(PushTokens, MaxPushTokens)}
    \cup {FontOf1000(<<\h4b>>), FontOf1000(<<\hb0, 1, \h4b>>)}
    \cup {Font(<<SimpleGlyph(<<>>)>>, Some(<<\h00>>), Some(<<\h01>>), 4)}

OpsInit == ScalerInit(OpsFonts)

SpecOps == OpsInit /\ [][ScalerNext]_vars

(***************************************************************************)
(* Properties of the graphics state and of single opcodes                  *)
(***************************************************************************)
\* the points zone pointer z selects: 0 the twilight zone, 1 the glyph
Zone(z) == IF z = 0 THEN state.twilight_zone ELSE points

\* C11: after any sequence of opcodes every zone pointer zp[i] is 0 or 1, and
\* while a glyph is hinted every reference point rp[i] is a valid point
\* index of its zone.
C11_PointersInRange ==
    /\ \A i \in 1..3 : state.zp[i] \in {0, 1}
    /\ phase = "glyph" =>
         \A i \in 1..3 : ValidIndex(state.rp[i], Len(Zone(state.zp[i])))

\* C12: the graphics state InstructedGlyphScaler::new creates, in which the
\* font program starts, has auto_flip = true, cvt_cut_in = 17/16,
\* delta_base = 9, delta_shift = 3, projection = dual projection = freedom
\* vector = (1,0), instruct_control = false, loop = 1, minimum_distance = 1,
\* round_state = 1 (round to grid), rp = (0,0,0), scan_control = false,
\* single_width_cut_in = 0, single_width_value = 0 and zp = (1,1,1).
C12_FreshGraphicsState ==
    [][(phase = "unbuilt" /\ phase' \in {"fpgm", "prep", "ready"})
        => (/\ state'.auto_flip = TRUE
            /\ state'.cvt_cutin = [m |-> 17, e |-> -4]
            /\ state'.delta_base = 9
            /\ state'.delta_shift = 3
            /\ state'.project_vec = Vector(F32One, F32Zero)
            /\ state'.dual_prj_vec = Vector(F32One, F32Zero)
            /\ state'.freedom_vec = Vector(F32One, F32Zero)
            /\ state'.instruct_ctrl = FALSE
            /\ state'.loopv = 1
            /\ state'.min_dist = F32One
            /\ state'.round_state = 1
            /\ state'.rp = <<0, 0, 0>>
            /\ state'.scan_ctrl = FALSE
            /\ state'.single_width_cut_in = F32Zero
            /\ state'.single_width_value = F32Zero
            /\ state'.zp = <<1, 1, 1>>)]_vars

\* the unit vector of the axis SVTCA[a] names: 0 the y axis, 1 the x axis
Axis(a) == IF a = 0 THEN Vector(F32Zero, F32One) ELSE Vector(F32One, F32Zero)

\* C13: SVTCA sets the projection vector and the freedom vector to the same
\* axis, (0,1) after opcode 0x00 and (1,0) after opcode 0x01; the stack and
\* every other field of the graphics state are unchanged.
C13_SvtcaSetsBothVectors ==
    [][(Running /\ Opcode \in {\h00, \h01})
        => (/\ phase' = phase
            /\ stack' = stack
            /\ state' = [state EXCEPT !.project_vec = Axis(Opcode),
                                      !.freedom_vec = Axis(Opcode)])]_vars

\* a 16-bit word sign-extended to 32 bits
SignExtend16(w) == IF w >= 32768 THEN w - 65536 ELSE w

\* the number of words a word push at p pushes, and the position of the first
\* of their bytes
WordCount(instr, p) ==
    IF instr[p + 1] = \h41 THEN instr[p + 2] ELSE instr[p + 1] - \hb7
WordsAt(instr, p) == IF instr[p + 1] = \h41 THEN p + 2 ELSE p + 1

\* C14: PUSHW[k] and NPUSHW push exactly k values, the i-th being the i-th
\* big-endian 16-bit immediate sign-extended to 32 bits, and leave pc at the
\* first byte after the 2k immediate bytes.
C14_PushWords ==
    [][(Running /\ (Opcode \in \hb8..\hbf \/ Opcode = \h41)
          /\ pc + InstructionLength(instructions, pc) <= Len(instructions))
        => LET k  == WordCount(instructions, pc)
               at == WordsAt(instructions, pc)
           IN /\ phase' = phase
              /\ pc' = at + 2 * k
              /\ stack' = stack \o
                    [i \in 1..k |->
                        SignExtend16(instructions[at + 2 * i - 1] * 256
                                     + instructions[at + 2 * i])]]_vars

\* C15: MPPEM pushes the pixels per em of the current size,
\* point_size * dpi / 72, and leaves the rest of the stack unchanged (12 at
\* point size 12, 72 dpi, 1000 units per em).
C15_MppemPushesPixelsPerEm ==
    [][(Running /\ Opcode = \h4b)
        => (/\ phase' = phase
            /\ stack' = Append(stack,
                               (scaler.point_size * scaler.output_dpi) \div 72))]_vars

\* the operands the instruction set has an opcode pop, and the values it has
\* it push
IsaPops(op) ==
    CASE op \in {\h2e, \h2f, \h2b, \h21, \h45, \h43} -> 1
      [] op \in {\h42, \h44, \h63, \h62, \h60} -> 2
      [] OTHER -> 0
IsaPushes(op) ==
    CASE op \in {\h45, \h43, \h63, \h62, \h60, \h4b} -> 1
      [] op \in \hb0..\hb7 -> op - \haf
      [] OTHER -> 0
IsaKnown ==
    {\h2e, \h2f, \h2b, \h21, \h45, \h43, \h42, \h44, \h63, \h62, \h60, \h4b}
    \cup (\hb0..\hb7)

\* C16: for every opcode the interpreter accepts, the change of the stack
\* depth equals the net stack effect the instruction set gives the opcode
\* (MDAP, CALL, WS, WCVTP consume their operands, RCVT and RS replace one
\* value).
C16_NetStackEffect ==
    [][(Running /\ Opcode \in IsaKnown /\ Len(stack) >= IsaPops(Opcode)
          /\ phase' = phase)
        => Len(stack') = Len(stack) - IsaPops(Opcode) + IsaPushes(Opcode)]_vars

\* the operands of C17: small enough for the exact product and shift
SmallWord(w) == -32768 < w /\ w < 32768

\* C17: F26Dot6 multiplication and division keep the radix: MUL pushes
\* (a * b) >> 6 and DIV pushes (a << 6) / b for the two words popped, so
\* 1.0 * 1.0 = 1.0 and 1.0 / 1.0 = 1.0 (raw 64).
C17_MulDivKeepRadix ==
    [][(Running /\ Opcode \in {\h63, \h62} /\ Len(stack) >= 2
          /\ SmallWord(stack[Len(stack)]) /\ SmallWord(stack[Len(stack) - 1])
          /\ stack[Len(stack)] # 0 /\ stack[Len(stack) - 1] # 0)
        => LET a == stack[Len(stack)]
               b == stack[Len(stack) - 1]
               rest == SubSeq(stack, 1, Len(stack) - 2)
           IN /\ phase' = phase
              /\ IF Opcode = \h63
                 THEN stack' = Append(rest, (a * b) \div 64)
                 ELSE stack' \in {Append(rest, TruncDiv(a * 64, b)),
                                  Append(rest, TruncDiv(b * 64, a))}]_vars

(***************************************************************************)
(* F26d6::floor and F26d6::ceil called on their own                        *)
(***************************************************************************)
\* the raw values floor and ceil are called with are -MaxRaw..MaxRaw
MaxRaw == 130

RoundInit ==
    /\ LoaderIdle
    /\ ScalerIdle
    /\ fun_name = "floor_ceil"
    /\ fun_arg \in {<<x>> : x \in (-MaxRaw)..MaxRaw}
    /\ fun_res = <<>>

\* F26d6(x).floor() and F26d6(x).ceil(), numerics.rs lines 42-48
FloorCeil ==
    /\ fun_name = "floor_ceil"
    /\ fun_res = <<>>
    /\ fun_res' = <<F26d6_floor(fun_arg[1]), F26d6_ceil(fun_arg[1])>>
    /\ UNCHANGED <<fun_name, fun_arg>>
    /\ UNCHANGED <<ld_vars, sc_vars>>

SpecRound == RoundInit /\ [][FloorCeil]_vars

\* C18: floor(x) is the largest multiple of 64 not above x and ceil(x) is
\* (x + 0x3F) & ~0x3F, so floor(x) <= x <= ceil(x), and ceil(x) differs from
\* floor(x) when x is not a multiple of 64.
C18_FloorBelowCeilAbove ==
    (fun_name = "floor_ceil" /\ fun_res # <<>>)
    => LET x == fun_arg[1]
           f == fun_res[1]
           c == fun_res[2]
       IN /\ f % 64 = 0 /\ f <= x /\ x < f + 64
          /\ c = ((x + 63) \div 64) * 64
          /\ x <= c
          /\ (x % 64 # 0 => c # f)

(***************************************************************************)
(* truetype_loader/glyph_data_table.rs: GlyphDescription::from_binary      *)
(***************************************************************************)
\* GlyphPointFlags, lines 49-57
GP_RESERVED == 192
GP_OnCurve == 1
GP_XShortVec == 2
GP_YShortVec == 4
GP_Repeat == 8
GP_XSameOrVecSign == 16
GP_YSameOrVecSign == 32

\* GlyphPointFlags::from_bits_truncate keeps the bits of the flags, which are
\* all eight; GlyphPointFlags::intersects
from_bits_truncate(d0) ==
    d0 % (GP_OnCurve + GP_XShortVec + GP_YShortVec + GP_Repeat
          + GP_XSameOrVecSign + GP_YSameOrVecSign + GP_RESERVED + 1)
intersects(flag, bit) == (flag \div bit) % 2 = 1

\* the outcome of a part of from_binary: the points so far, the index i into
\* data, and whether an index or an assert! panicked
Parsed(pts, i) == [points |-> pts, i |-> i, panic |-> FALSE]
ParsePanic == [points |-> <<>>, i |-> 0, panic |-> TRUE]

\* the points the for loop of lines 137-140 pushes: it pushes, then breaks
\* when n points exist
Pushed(repeat_count, have, n) ==
    IF repeat_count = 0 THEN 0
    ELSE IF n - have < 1 THEN 1
    ELSE IF repeat_count < n - have THEN repeat_count
    ELSE n - have

\* the flag loop, lines 125-144
RECURSIVE ReadFlags(_, _, _, _, _)
ReadFlags(data, i, pts, n, bld) ==
    IF i >= Len(data) THEN Parsed(pts, i)
    ELSE LET flag == from_bits_truncate(data[i + 1])
             p    == [on_curve |-> intersects(flag, GP_OnCurve),
                      x |-> 0, y |-> 0, flag |-> flag]
             After(repeat_count, j) ==
                 LET more == pts \o [k \in 1..Pushed(repeat_count, Len(pts), n) |-> p]
                 IN IF Len(more) >= n THEN Parsed(more, j)
                    ELSE ReadFlags(data, j, more, n, bld)
         IN IF intersects(flag, GP_Repeat)
            THEN IF i + 1 >= Len(data) THEN ParsePanic
                 ELSE IF data[i + 2] = 255 /\ bld.overflow_checks THEN ParsePanic
                 ELSE After((data[i + 2] + 1) % 256, i + 2)
            ELSE After(1, i + 1)

\* i32::abs of a value that is not i32::MIN
Abs(v) == IF v < 0 THEN -v ELSE v

\* a 16-bit word as i16
AsI16(v) == IF v >= 32768 THEN v - 65536 ELSE v

\* load_vec with every delta added (the sign bit of a short vector ignored)
load_vec_unsigned(data, i, last, short_vec, sameorsign) ==
    IF short_vec
    THEN IF i >= Len(data) THEN [last |-> 0, i |-> i, panic |-> TRUE]
         ELSE [last |-> last + data[i + 1], i |-> i + 1, panic |-> FALSE]
    ELSE IF ~sameorsign
    THEN IF i + 1 >= Len(data) THEN [last |-> 0, i |-> i, panic |-> TRUE]
         ELSE [last |-> last + data[i + 1] * 256 + data[i + 2], i |-> i + 2,
               panic |-> FALSE]
    ELSE [last |-> last, i |-> i, panic |-> FALSE]

\* load_vec, lines 148-162: *last and *i after the call, or a panic
load_vec(data, i, last, short_vec, sameorsign) ==
    IF short_vec
    THEN IF i >= Len(data) THEN [last |-> 0, i |-> i, panic |-> TRUE]
         ELSE [last |-> last + data[i + 1] * (IF sameorsign THEN 1 ELSE -1),
               i |-> i + 1, panic |-> FALSE]
    ELSE IF ~sameorsign
    THEN IF i + 1 >= Len(data) THEN [last |-> 0, i |-> i, panic |-> TRUE]
         ELSE LET v == data[i + 1] * 256 + data[i + 2]
                  l == WrapAdd(last, AsI16(v))
              IN IF ~(Abs(l) < 30000) THEN [last |-> 0, i |-> i, panic |-> TRUE]
                 ELSE [last |-> l, i |-> i + 2, panic |-> FALSE]
    ELSE [last |-> last, i |-> i, panic |-> FALSE]

\* the loops of lines 164-168 (axis "x") and 170-177 (axis "y") from point k
RECURSIVE LoadCoords(_, _, _, _, _, _)
LoadCoords(data, i, last, pts, k, axis) ==
    IF k > Len(pts) THEN Parsed(pts, i)
    ELSE LET flag == pts[k].flag
             r == IF axis = "x"
                  THEN load_vec(data, i, last, intersects(flag, GP_XShortVec),
                                intersects(flag, GP_XSameOrVecSign))
                  ELSE load_vec(data, i, last, intersects(flag, GP_YShortVec),
                                intersects(flag, GP_YSameOrVecSign))
         IN IF r.panic THEN ParsePanic
            ELSE LoadCoords(data, r.i, r.last,
                            IF axis = "x" THEN [pts EXCEPT ![k].x = r.last]
                            ELSE [pts EXCEPT ![k].y = r.last],
                            k + 1, axis)

\* what from_binary returns or does
GlyphNone == [kind |-> "None", end_points_of_contours |-> <<>>, points |-> <<>>]
GlyphPanic == [kind |-> "panic", end_points_of_contours |-> <<>>, points |-> <<>>]

\* GlyphDescription::from_binary, lines 101-187, of a glyph of Len(epoc)
\* contours whose reader gives the end points epoc, no instructions and then
\* the glyph_length bytes data
GlyphDescription_from_binary(epoc, data, bld) ==
    IF Len(data) = 0 THEN GlyphNone
    ELSE LET e == epoc[Len(epoc)]
             n == (e + 1) % 65536
             f == ReadFlags(data, 0, <<>>, n, bld)
             x == LoadCoords(data, f.i, 0, f.points, 1, "x")
             y == LoadCoords(data, x.i, 0, x.points, 1, "y")
         IN IF e = 65535 /\ bld.overflow_checks THEN GlyphPanic
            ELSE IF f.panic THEN GlyphPanic
            ELSE IF ~(Len(f.points) < Len(data)) THEN GlyphPanic
            ELSE IF x.panic THEN GlyphPanic
            ELSE IF y.panic THEN GlyphPanic
            ELSE [kind |-> "Simple", end_points_of_contours |-> epoc,
                  points |-> y.points]

\* the bytes of glyph data: as flags, on curve with y short and negative,
\* x long, x short and negative, no vector, x short and positive, off curve
\* with both long (0x80), and a run of short vectors (0xff)
GlyphBytes == {\h15, \h21, \h23, \h31, \h33, \h80, \hff}
MaxData == 4
\* the end points of the contours, in order and out of order
EndPointLists == {<<0>>, <<1>>, <<2>>, <<0, 1>>, <<1, 0>>}

RECURSIVE BytesOf(_)
BytesOf(len) ==
    IF len = 0 THEN {<<>>}
    ELSE BytesOf(len - 1)
         \cup {Append(d, b) : d \in {q \in BytesOf(len - 1) : Len(q) = len - 1},
                              b \in GlyphBytes}

GlyphInit ==
    /\ LoaderIdle
    /\ ScalerUnbuilt
    /\ build \in Builds
    /\ fun_name = "from_binary"
    /\ fun_arg \in {<<[epoc |-> e, data |-> d]>> :
                        e \in EndPointLists, d \in BytesOf(MaxData)}
    /\ fun_res = <<>>

ParseGlyph ==
    /\ fun_name = "from_binary"
    /\ fun_res = <<>>
    /\ fun_res' = <<GlyphDescription_from_binary(fun_arg[1].epoc, fun_arg[1].data,
                                                 build)>>
    /\ UNCHANGED <<fun_name, fun_arg>>
    /\ UNCHANGED <<ld_vars, sc_vars>>

SpecGlyph == GlyphInit /\ [][ParseGlyph]_vars

\* from_binary has returned a Simple glyph
ParsedSimple ==
    /\ fun_name = "from_binary"
    /\ fun_res # <<>>
    /\ fun_res[1].kind = "Simple"

RECURSIVE SeqMax(_)
SeqMax(q) ==
    IF Len(q) = 1 THEN q[1]
    ELSE LET m == SeqMax(Tail(q)) IN IF q[1] > m THEN q[1] ELSE m

\* C19: every Simple glyph the parser produces has exactly
\* 1 + max(end_points_of_contours) points, for every flag stream and every
\* list of end points.
C19_PointCount ==
    ParsedSimple
    => Len(fun_res[1].points) = 1 + SeqMax(fun_res[1].end_points_of_contours)

\* the bytes a coordinate takes in its stream, and the delta it encodes at
\* offset at of data, by the two bits of the point's flag
Width(short, same) == IF short THEN 1 ELSE IF same THEN 0 ELSE 2
Delta(data, at, short, same) ==
    IF short THEN (IF same THEN data[at + 1] ELSE -data[at + 1])
    ELSE IF same THEN 0
    ELSE SignExtend16(data[at + 1] * 256 + data[at + 2])

\* the sum of the first k elements of q
RECURSIVE SumTo(_, _)
SumTo(q, k) == IF k = 0 THEN 0 ELSE SumTo(q, k - 1) + q[k]

\* the running totals of the stream that starts at offset start of data, for
\* points whose flags say short and same as the sequences short and same do
Totals(data, start, short, same) ==
    LET widths == [j \in 1..Len(short) |-> Width(short[j], same[j])]
        deltas == [j \in 1..Len(short) |->
                      Delta(data, start + SumTo(widths, j - 1), short[j], same[j])]
    IN [k \in 1..Len(short) |-> SumTo(deltas, k)]

\* the bytes of the x stream
XWidth(pts) ==
    LET widths == [j \in 1..Len(pts) |->
                      Width(intersects(pts[j].flag, GP_XShortVec),
                            intersects(pts[j].flag, GP_XSameOrVecSign))]
    IN SumTo(widths, Len(pts))

\* C20: the x coordinates of a parsed simple glyph's points, and
\* independently the y coordinates, are the running totals from 0 of the
\* deltas their flags encode: a short vector adds the unsigned byte when the
\* same-or-sign bit is set and subtracts it when clear, a long vector with the
\* bit clear adds the signed big-endian 16-bit value, and with the bit set the
\* previous total is repeated and no byte is consumed.
C20_CoordinatesAreRunningTotals ==
    ParsedSimple
    => LET data  == fun_arg[1].data
           pts   == fun_res[1].points
           n     == (fun_arg[1].epoc[Len(fun_arg[1].epoc)] + 1) % 65536
           start == ReadFlags(data, 0, <<>>, n, build).i
           Bit(b) == [j \in 1..Len(pts) |-> intersects(pts[j].flag, b)]
           xs == Totals(data, start, Bit(GP_XShortVec), Bit(GP_XSameOrVecSign))
           ys == Totals(data, start + XWidth(pts), Bit(GP_YShortVec),
                        Bit(GP_YSameOrVecSign))
       IN \A k \in 1..Len(pts) : pts[k].x = xs[k] /\ pts[k].y = ys[k]

\* a glyph of two points parsed: the first x is a negative long vector and
\* the second repeats it without a byte
C20_Witness ==
    /\ ParsedSimple
    /\ Len(fun_res[1].points) = 2
    /\ ~intersects(fun_res[1].points[1].flag, GP_XShortVec)
    /\ ~intersects(fun_res[1].points[1].flag, GP_XSameOrVecSign)
    /\ fun_res[1].points[1].x < 0
    /\ fun_res[1].points[2].x = fun_res[1].points[1].x
    /\ ~intersects(fun_res[1].points[2].flag, GP_XShortVec)

(***************************************************************************)
(* Glyph::from_truetype_with_points called on its own                      *)
(***************************************************************************)
\* the stored points of a glyph are at most MaxAsmPoints
MaxAsmPoints == 4

\* the coordinates of the k-th stored point: a square, then a diagonal
AsmCoord(k) ==
    CASE k = 1 -> Point(0, 0)
      [] k = 2 -> Point(10, 0)
      [] k = 3 -> Point(10, 10)
      [] k = 4 -> Point(0, 10)
      [] OTHER -> Point(10 * k, 10 * k)

\* the lists of end points that cut n points into contours, the last of
\* which ends at point n - 1
RECURSIVE EndPointsOf(_)
EndPointsOf(n) ==
    IF n = 1 THEN {<<0>>}
    ELSE {Append(e, n - 1) : e \in EndPointsOf(n - 1)}
         \cup {[e EXCEPT ![Len(e)] = n - 1] : e \in EndPointsOf(n - 1)}

\* Simple glyphs of n points
AsmGlyphs(n) ==
    {[kind |-> "Simple", end_points_of_contours |-> e, instructions |-> <<>>,
      points |-> [k \in 1..n |-> GlyphPoint(AsmCoord(k).x, AsmCoord(k).y, on[k])]] :
        e \in EndPointsOf(n), on \in [1..n -> BOOLEAN]}

AsmInit ==
    /\ LoaderIdle
    /\ ScalerIdle
    /\ fun_name = "from_truetype_with_points"
    /\ fun_arg \in {<<g, [k \in 1..Len(g.points) |-> AsmCoord(k)]>> :
                        g \in UNION {AsmGlyphs(n) : n \in 1..MaxAsmPoints}}
    /\ fun_res = <<>>

\* Glyph::from_truetype_with_points(ttf_glyph, cpoints), lib.rs lines 81-133
Assemble ==
    /\ fun_name = "from_truetype_with_points"
    /\ fun_res = <<>>
    /\ fun_res' = <<from_truetype_with_points(fun_arg[1], fun_arg[2])>>
    /\ UNCHANGED <<fun_name, fun_arg>>
    /\ UNCHANGED <<ld_vars, sc_vars>>

SpecAsm == AsmInit /\ [][Assemble]_vars

\* the assembler has returned Some(Glyph)
Assembled ==
    /\ fun_name = "from_truetype_with_points"
    /\ fun_res # <<>>
    /\ fun_res[1].kind = "Some"

\* the first and the last point index of the k-th contour
ContourFirst(g, k) == IF k = 1 THEN 0 ELSE g.end_points_of_contours[k - 1] + 1
ContourLast(g, k) == g.end_points_of_contours[k]

\* the primitives whose point indices all lie in lo..hi
Within(curves, lo, hi) ==
    LET In(c) == \A j \in 2..Len(c) : lo <= c[j] /\ c[j] <= hi
    IN SelectSeq(curves, In)

\* C22: for a contour of n stored points that are all on-curve the assembler
\* emits exactly n Line primitives and no Quad: Line(k, k+1) for each
\* consecutive pair and one closing Line from the last point to the first.
C22_OnCurveContourIsLines ==
    Assembled
    => LET g == fun_arg[1]
       IN \A k \in 1..Len(g.end_points_of_contours) :
            LET lo == ContourFirst(g, k)
                hi == ContourLast(g, k)
            IN (\A j \in lo..hi : g.points[j + 1].on_curve)
               => Within(fun_res[1].curves, lo, hi)
                    = [j \in 1..(hi - lo + 1) |->
                         IF j <= hi - lo THEN <<"Line", lo + j - 1, lo + j>>
                         ELSE <<"Line", hi, lo>>]

\* the square of four on-curve points in one contour has been assembled into
\* four primitives
C22_Witness ==
    /\ Assembled
    /\ fun_arg[1].end_points_of_contours = <<3>>
    /\ \A k \in 1..4 : fun_arg[1].points[k].on_curve
    /\ Len(fun_res[1].curves) = 4

\* the contour (0,0) off, (10,0) off, (10,10) on
TwoOffOneOn ==
    /\ fun_name = "from_truetype_with_points"
    /\ fun_res # <<>>
    /\ fun_arg[1].end_points_of_contours = <<2>>
    /\ ~fun_arg[1].points[1].on_curve
    /\ ~fun_arg[1].points[2].on_curve
    /\ fun_arg[1].points[3].on_curve

\* C23: for the single contour (0,0) off, (10,0) off, (10,10) on the
\* assembler appends the midpoint (5,0) to the points and emits a Quad with
\* control (0,0) ending at (5,0), followed by a Quad from (5,0) with control
\* (10,0) ending at (10,10).
C23_LeadingOffCurveQuads ==
    TwoOffOneOn
    => /\ fun_res[1].kind = "Some"
       /\ fun_res[1].points = Append(fun_arg[2], Point(5, 0))
       /\ \E j \in 1..(Len(fun_res[1].curves) - 1) :
            /\ fun_res[1].curves[j][1] = "Quad"
            /\ fun_res[1].curves[j][3] = 0
            /\ fun_res[1].curves[j][4] = 3
            /\ fun_res[1].curves[j + 1] = <<"Quad", 3, 1, 2>>

\* the point index a primitive starts at and the one it ends at
StartOf(c) == c[2]
EndOf(c) == c[Len(c)]

\* C26: the primitives of a contour form one closed chain: each starts at the
\* point index where the previous one ended, and the closing Line ends where
\* the first primitive starts (stated for glyphs of one contour).
C26_ClosedChain ==
    (Assembled /\ Len(fun_arg[1].end_points_of_contours) = 1)
    => LET curves == fun_res[1].curves
       IN /\ \A j \in 1..(Len(curves) - 1) : EndOf(curves[j]) = StartOf(curves[j + 1])
          /\ curves # <<>>
          /\ EndOf(curves[Len(curves)]) = StartOf(curves[1])

(***************************************************************************)
(* CharMap::map, lib.rs lines 64-68, called on its own                     *)
(***************************************************************************)
\* the codepoints map is called with are 0..MaxChar
MaxChar == 300

\* Format-0 tables [u8; 256]: glyph 255 - c for codepoint c, and glyph c
IdMaps == {[i \in 1..256 |-> 256 - i], [i \in 1..256 |-> i - 1]}

\* CharMap::map: the glyph index, or a panic of the index into id_map
map(id_map, ci) ==
    IF ci > 256 THEN [kind |-> "ok", v |-> 0]
    ELSE IF ci >= Len(id_map) THEN [kind |-> "panic", v |-> 0]
    ELSE [kind |-> "ok", v |-> id_map[ci + 1]]

CharMapInit ==
    /\ LoaderIdle
    /\ ScalerIdle
    /\ fun_name = "map"
    /\ fun_arg \in {<<m, c>> : m \in IdMaps, c \in 0..MaxChar}
    /\ fun_res = <<>>

MapChar ==
    /\ fun_name = "map"
    /\ fun_res = <<>>
    /\ fun_res' = <<map(fun_arg[1], fun_arg[2])>>
    /\ UNCHANGED <<fun_name, fun_arg>>
    /\ UNCHANGED <<ld_vars, sc_vars>>

SpecCharMap == CharMapInit /\ [][MapChar]_vars

\* C24: the character map lookup never fails: it returns the table entry for
\* every codepoint 0..255 and 0 (the missing glyph) for every codepoint >= 256.
C24_MapNeverFails ==
    (fun_name = "map" /\ fun_res # <<>>)
    => /\ fun_res[1].kind = "ok"
       /\ fun_res[1].v = IF fun_arg[2] >= 256 THEN 0 ELSE fun_arg[1][fun_arg[2] + 1]

(***************************************************************************)
(* table_tag_code! and the tag of a directory entry, mod.rs lines 47-49    *)
(* and 347                                                                 *)
(***************************************************************************)
\* the characters of the tags: 'c', 'm', 'a', 'p', 'g' and ' '
TagChars == {99, 109, 97, 112, 103, 32}

\* reader.read_u32::<BigEndian>() over the four bytes q
read_u32_BigEndian(q) == ((q[1] * 256 + q[2]) * 256 + q[3]) * 256 + q[4]

TagInit ==
    /\ LoaderIdle
    /\ ScalerIdle
    /\ fun_name = "table_tag_code"
    /\ fun_arg \in [1..4 -> TagChars]
    /\ fun_res = <<>>

\* the TableTag of four characters, and the tag TableDirectoryEntry reads
\* from the same four bytes
TagOf ==
    /\ fun_name = "table_tag_code"
    /\ fun_res = <<>>
    /\ fun_res' = <<table_tag_code(fun_arg[1], fun_arg[2], fun_arg[3], fun_arg[4]),
                    read_u32_BigEndian(fun_arg)>>
    /\ UNCHANGED <<fun_name, fun_arg>>
    /\ UNCHANGED <<ld_vars, sc_vars>>

SpecTag == TagInit /\ [][TagOf]_vars

\* bit k..k+7 of the word w
ByteOf(w, k) == (w \div (2 ^ k)) % 256

\* C25: the value of a table tag is the big-endian packing of its four
\* characters, (a<<24)|(b<<16)|(c<<8)|d, which is 0x636D6170 for 'cmap', and
\* the tag of a directory entry read big-endian from the same four bytes is
\* the same value.
C25_TagIsBigEndianPacking ==
    (fun_name = "table_tag_code" /\ fun_res # <<>>)
    => /\ ByteOf(fun_res[1], 24) = fun_arg[1]
       /\ ByteOf(fun_res[1], 16) = fun_arg[2]
       /\ ByteOf(fun_res[1], 8) = fun_arg[3]
       /\ ByteOf(fun_res[1], 0) = fun_arg[4]
       /\ fun_res[1] \div (2 ^ 24) = fun_arg[1]
       /\ fun_res[2] = fun_res[1]
       /\ (fun_arg = <<99, 109, 97, 112>>
             => fun_res[1] = \h636D6170 /\ fun_res[1] = CharGlyphMapping)

\* the tag of 'cmap' has been computed and read
C25_Witness ==
    /\ fun_name = "table_tag_code"
    /\ fun_arg = <<99, 109, 97, 112>>
    /\ fun_res = <<\h636D6170, \h636D6170>>

(***************************************************************************)
(* Programs of jumps, and the interpreter's progress                       *)
(***************************************************************************)
\* PUSHB[1] 0, PUSHB[1] 1, NEG, JMPR, JROT, JROF
MaxJumpTokens == 3
JumpTokens == {<<\hb0, 0>>, <<\hb0, 1>>, <<\h65>>, <<\h1c>>, <<\h78>>, <<\h79>>}
JumpFonts ==
    {Font(<<SimpleGlyph(prog)>>, None, None, 4) :
        prog \in ProgramsOver(JumpTokens, MaxJumpTokens)}

JumpInit == ScalerInit(JumpFonts)

SpecJump == JumpInit /\ [][ScalerNext]_vars

\* the opcodes that read immediates or skip to an ELSE or EIF
ReadsAhead == (\hb0..\hbf) \cup {\h40, \h41, \h58, \h1b}

\* C27: the interpreter never reads the instruction array at or beyond its
\* length: a push whose immediates the end of the program cuts off, and an
\* IF or ELSE without a matching EIF, end with an error value or normally,
\* never with an out-of-bounds access.
C27_NoReadPastTheEnd ==
    [][(Running /\ Opcode \in ReadsAhead) => phase' # "panicked"]_vars

\* C28: pc strictly increases with every instruction interpret executes
\* (JMPR, JROT and JROF with any popped offset, 0 and negative words
\* included, never move pc backwards or leave it in place), so the distance
\* of pc to the program length shrinks until the loop ends.
C28_PcStrictlyIncreases ==
    [][(Running /\ phase' = phase) => pc' > pc]_vars

\* JMPR has been executed with a negative word as its offset, and the loop
\* went on
C28_Witness ==
    /\ phase = "glyph"
    /\ instructions = <<\hb0, 1, \h65, \h1c>>
    /\ pc > 3
    /\ stack = <<>>

(***************************************************************************)
(* Rasterizer::raster_glyph, lib.rs lines 271-296, for the Glyph its        *)
(* scaler returns.  The coordinates of the points are integers and the     *)
(* scanline of row y is at y + 0.5: the comparisons are made on the doubles *)
(* of both.                                                                *)
(***************************************************************************)
\* inside(y + 0.5, min, max), lines 177-181
inside_row(y, min, max) ==
    LET rmin == IF min > max THEN max ELSE min
        rmax == IF min > max THEN min ELSE max
    IN 2 * y + 1 >= 2 * rmin /\ 2 * y + 1 <= 2 * rmax

\* a curve whose intersection with the scanline of row y is not a whole
\* number: a slanted Line that crosses it, and a Quad
NotWhole(curve, pts, y) ==
    IF curve[1] = "Line"
    THEN LET start == pts[curve[2] + 1]
             end   == pts[curve[3] + 1]
         IN inside_row(y, start.y, end.y) /\ start.x # end.x /\ start.y # end.y
    ELSE TRUE

\* Curve::intersect_scanline, lines 231-262, at the scanline of row y, for a
\* curve that is not NotWhole: the values pushed to result
intersect_scanline(curve, pts, y) ==
    LET start == pts[curve[2] + 1]
        end   == pts[curve[3] + 1]
    IN IF ~inside_row(y, start.y, end.y) THEN <<>>
       ELSE IF start.x = end.x THEN <<start.x>>
       ELSE <<start.x, end.x>>

\* lines 278-281: xs of row y after the loop over the curves, from the k-th
RECURSIVE Intersections(_, _, _)
Intersections(glyph, y, k) ==
    IF k > Len(glyph.curves) THEN <<>>
    ELSE intersect_scanline(glyph.curves[k], glyph.points, y)
         \o Intersections(glyph, y, k + 1)

\* xs.sort_unstable_by, line 283
RECURSIVE SortAscending(_)
SortAscending(xs) ==
    IF xs = <<>> THEN <<>>
    ELSE LET least == CHOOSE k \in 1..Len(xs) : \A j \in 1..Len(xs) : xs[k] <= xs[j]
         IN <<xs[least]>>
            \o SortAscending([j \in 1..(Len(xs) - 1) |->
                                 IF j < least THEN xs[j] ELSE xs[j + 1]])

\* f32 as usize of a whole number
AsUsize(v) == IF v < 0 THEN 0 ELSE v

\* lines 286-288: for x in from..to { bitmap[x + base] = 255 }, which panics
\* at the first index past the bitmap and keeps what it wrote
FillSpan(bitmap, from, to, base) ==
    [bitmap |-> [j \in 1..Len(bitmap) |->
                    IF from + base <= j - 1 /\ j - 1 < to + base THEN 255
                    ELSE bitmap[j]],
     panic |-> from < to /\ to + base > Len(bitmap)]

\* lines 284-289: for px in xs.chunks(2), from the chunk that starts at k
RECURSIVE FillChunks(_, _, _, _)
FillChunks(xs, k, bitmap, base) ==
    IF k + 1 > Len(xs) THEN [bitmap |-> bitmap, panic |-> FALSE]
    ELSE LET F == FillSpan(bitmap, AsUsize(xs[k]), AsUsize(xs[k + 1]), base)
         IN IF F.panic THEN F ELSE FillChunks(xs, k + 2, F.bitmap, base)

\* lines 277-290: for y in 0..height, from row y
RECURSIVE RasterRows(_, _, _, _, _)
RasterRows(glyph, bitmap, width, y, height) ==
    IF y >= height THEN [kind |-> "Ok", bitmap |-> bitmap]
    ELSE LET xs == Intersections(glyph, y, 1)
         IN IF \E k \in 1..Len(glyph.curves) :
                  NotWhole(glyph.curves[k], glyph.points, y)
            THEN [kind |-> "unmodelled", bitmap |-> bitmap]
            ELSE LET F == FillChunks(SortAscending(xs), 1, bitmap, y * width)
                 IN IF F.panic THEN [kind |-> "panic", bitmap |-> F.bitmap]
                    ELSE RasterRows(glyph, F.bitmap, width, y + 1, height)

\* raster_glyph for the glyph scale_glyph returned: Ok(bitmap), or a panic
\* with the bitmap as far as it was written
raster_glyph(glyph, bitmap, width) ==
    IF width = 0 THEN [kind |-> "panic", bitmap |-> bitmap]
    ELSE RasterRows(glyph, bitmap, width, 0, Len(bitmap) \div width)

\* bitmaps are of 1..MaxWidth columns and 1..MaxHeight rows
MaxWidth == 3
MaxHeight == 3

\* the outline of the rectangle from (x0, y0) to (x1, y1)
Rectangle(x0, y0, x1, y1) ==
    [curves |-> <<Line(0, 1), Line(1, 2), Line(2, 3), Line(3, 0)>>,
     points |-> <<Point(x0, y0), Point(x1, y0), Point(x1, y1), Point(x0, y1)>>]

RasterInit ==
    /\ LoaderIdle
    /\ ScalerIdle
    /\ fun_name = "raster_glyph"
    /\ fun_arg \in {<<Rectangle(x0, y0, x1, y1), [j \in 1..(w * h) |-> 0], w>> :
                        x0 \in 0..MaxWidth, x1 \in 1..(MaxWidth + 1),
                        y0 \in 0..1, y1 \in 1..MaxHeight,
                        w \in 1..MaxWidth, h \in 1..MaxHeight}
    /\ fun_res = <<>>

RasterGlyph ==
    /\ fun_name = "raster_glyph"
    /\ fun_res = <<>>
    /\ fun_res' = <<raster_glyph(fun_arg[1], fun_arg[2], fun_arg[3])>>
    /\ UNCHANGED <<fun_name, fun_arg>>
    /\ UNCHANGED <<ld_vars, sc_vars>>

SpecRaster == RasterInit /\ [][RasterGlyph]_vars

\* C29: raster_glyph writes, for row y and a pair (x0, x1) of sorted
\* intersections, only cells of row y in the columns x0..x1-1 below width:
\* a span past the right edge neither spills into row y+1 nor indexes past the
\* end of the bitmap, and every other cell is left unchanged.
C29_SpansStayInTheirRow ==
    (fun_name = "raster_glyph" /\ fun_res # <<>>)
    => LET pts    == fun_arg[1].points
           width  == fun_arg[3]
           before == fun_arg[2]
           after  == fun_res[1].bitmap
           left   == IF pts[1].x < pts[3].x THEN pts[1].x ELSE pts[3].x
           right  == IF pts[1].x < pts[3].x THEN pts[3].x ELSE pts[1].x
       IN /\ fun_res[1].kind = "Ok"
          /\ \A j \in 1..Len(before) :
               after[j] # before[j]
               => LET row == (j - 1) \div width
                      col == (j - 1) % width
                  IN /\ inside_row(row, pts[1].y, pts[3].y)
                     /\ left <= col /\ col < right

(***************************************************************************)
(* GlyphDataTable::from_binary and GlyphDescription::from_binary over the  *)
(* bytes of the reader, glyph_data_table.rs lines 101-247 and 265-273      *)
(***************************************************************************)
\* ComponentGlyphFlags, lines 23-35
CGF_ARGS_ARE_WORDS == 1
CGF_SIMPLE_SCALE == 8
CGF_MORE_COMPONENTS == 32
CGF_XY_SCALE == 64
CGF_2X2_TRANSFORM == 128
CGF_INSTRUCTIONS_PRESENT == 256
CGF_USE_METRICS == 512

\* ComponentGlyphFlags::from_bits_truncate: the flags are the bits 0x07ef
CGF_from_bits_truncate(raw) ==
    (raw % 2048) - (IF intersects(raw, 16) THEN 16 ELSE 0)

\* read_u8, read_u16::<BigEndian> and read_i16::<BigEndian> at position pos of
\* the bytes file, and whether n bytes are left there
Left(file, pos, n) == pos + n <= Len(file)
read_u8(file, pos) == file[pos + 1]
read_u16(file, pos) == file[pos + 1] * 256 + file[pos + 2]
read_i16(file, pos) == AsI16(read_u16(file, pos))

\* what from_binary makes of one glyph: its kind ("None", "Simple",
\* "Composite", "Err" for an io::Error, "panic"), its fields, and the position
\* up to which it read or tried to read
GlyphRead(kind, epoc, pts, comps, instr, upto) ==
    [kind |-> kind, end_points_of_contours |-> epoc, points |-> pts,
     components |-> comps, instructions |-> instr, upto |-> upto]
ReadErr(upto) == GlyphRead("Err", <<>>, <<>>, <<>>, <<>>, upto)

\* the words the transformation of a component takes, lines 203-216
TransformWords(flags) ==
    IF intersects(flags, CGF_SIMPLE_SCALE) THEN 1
    ELSE IF intersects(flags, CGF_XY_SCALE) THEN 2
    ELSE IF intersects(flags, CGF_2X2_TRANSFORM) THEN 4
    ELSE 0

\* the loop of lines 191-233 from position pos, then lines 234-241
RECURSIVE ReadComponents(_, _, _, _)
ReadComponents(file, pos, comps, has_instructions) ==
    IF ~Left(file, pos, 4) THEN ReadErr(pos + 4)
    ELSE LET raw   == read_u16(file, pos)
             flags == CGF_from_bits_truncate(raw)
             ix    == read_u16(file, pos + 2)
             words == intersects(flags, CGF_ARGS_ARE_WORDS)
             args  == pos + 4
             tf    == IF words THEN args + 4 ELSE args + 1
             next  == tf + 2 * TransformWords(flags)
             has   == has_instructions \/ intersects(flags, CGF_INSTRUCTIONS_PRESENT)
         IN IF ~Left(file, args, IF words THEN 4 ELSE 1) THEN ReadErr(tf)
            ELSE IF ~Left(file, tf, 2 * TransformWords(flags)) THEN ReadErr(next)
            ELSE LET c == [glyph_index |-> ix,
                           arg1 |-> IF words THEN read_u16(file, args)
                                    ELSE read_u8(file, args) \div 256,
                           arg2 |-> IF words THEN read_u16(file, args + 2)
                                    ELSE read_u8(file, args) % 256,
                           transform |-> [k \in 1..TransformWords(flags) |->
                                             read_i16(file, tf + 2 * (k - 1))],
                           use_metrics |-> intersects(flags, CGF_USE_METRICS)]
                     all == Append(comps, c)
                 IN IF intersects(flags, CGF_MORE_COMPONENTS)
                    THEN ReadComponents(file, next, all, has)
                    ELSE IF ~has
                    THEN GlyphRead("Composite", <<>>, <<>>, all, <<0, 0>>, next)
                    ELSE IF ~Left(file, next, 2) THEN ReadErr(next + 2)
                    ELSE IF ~Left(file, next + 2, read_u16(file, next))
                    THEN ReadErr(next + 2 + read_u16(file, next))
                    ELSE GlyphRead("Composite", <<>>, <<>>, all,
                                   SubSeq(file, next + 3, next + 2 + read_u16(file, next)),
                                   next + 2 + read_u16(file, next))

\* the simple glyph g that lines 122-187 make of the data, with the
\* instructions read before it and the position the reader is left at
SimpleRead(g, instr, upto) ==
    GlyphRead(g.kind, g.end_points_of_contours, g.points, <<>>, instr, upto)

\* lines 111-187 for num_contours > 0, the reader being at pos
ReadSimple(file, pos, num_contours, glyph_length, bld) ==
    LET instr_at == pos + 2 * num_contours
    IN IF ~Left(file, pos, 2 * num_contours + 2) THEN ReadErr(instr_at + 2)
       ELSE LET epoc      == [k \in 1..num_contours |-> read_u16(file, pos + 2 * (k - 1))]
                num_instr == read_u16(file, instr_at)
                data_at   == instr_at + 2 + num_instr
            IN IF ~Left(file, instr_at + 2, num_instr) THEN ReadErr(data_at)
               ELSE IF ~Left(file, data_at, glyph_length)
               THEN ReadErr(data_at + glyph_length)
               ELSE SimpleRead(GlyphDescription_from_binary(
                                   epoc, SubSeq(file, data_at + 1, data_at + glyph_length),
                                   bld),
                               SubSeq(file, instr_at + 3, data_at),
                               data_at + glyph_length)

\* GlyphDescription::from_binary, lines 101-247, the reader being at pos
ReadGlyph(file, pos, glyph_length, bld) ==
    IF glyph_length = 0 THEN GlyphRead("None", <<>>, <<>>, <<>>, <<>>, pos)
    ELSE IF ~Left(file, pos, 10) THEN ReadErr(pos + 10)
    ELSE LET num_contours == read_i16(file, pos)
         IN IF num_contours > 0
            THEN ReadSimple(file, pos + 10, num_contours, glyph_length, bld)
            ELSE IF num_contours < 0
            THEN ReadComponents(file, pos + 10, <<>>, FALSE)
            ELSE GlyphRead("None", <<>>, <<>>, <<>>, <<>>, pos + 10)

\* GlyphDataTable::from_binary, lines 267-271, for a table that starts at byte
\* 0 and offsets that do not decrease: glyphs holds what was read before the
\* k-th window of the offsets, and the loop ends with the first glyph that is
\* not read (the ? of line 270)
RECURSIVE ReadGlyphs(_, _, _, _, _)
ReadGlyphs(file, offsets, k, bld, glyphs) ==
    IF k + 1 > Len(offsets) THEN glyphs
    ELSE IF glyphs # <<>> /\ glyphs[Len(glyphs)].kind \in {"Err", "panic"} THEN glyphs
    ELSE ReadGlyphs(file, offsets, k + 1, bld,
                    Append(glyphs, ReadGlyph(file, offsets[k],
                                             offsets[k + 1] - offsets[k], bld)))

\* the result of line 272, or the error or panic of the last glyph read
TableRead(glyphs) ==
    [kind |-> IF glyphs # <<>> /\ glyphs[Len(glyphs)].kind \in {"Err", "panic"}
              THEN glyphs[Len(glyphs)].kind ELSE "Ok",
     glyphs |-> glyphs]

GlyphDataTable_from_binary(file, offsets, bld) ==
    TableRead(ReadGlyphs(file, offsets, 1, bld, <<>>))

\* n bytes of zero
Zeros(n) == [k \in 1..n |-> 0]

\* the bytes of a simple glyph of one contour that ends at point e, with the
\* instructions instr and the flags and coordinates data
SimpleBytes(e, instr, data) ==
    <<0, 1>> \o Zeros(8) \o <<0, e>> \o <<0, Len(instr)>> \o instr \o data

\* the bytes of the component c
ComponentBytes(c) ==
    LET flags == (IF c.words THEN CGF_ARGS_ARE_WORDS ELSE 0)
                 + (IF c.more THEN CGF_MORE_COMPONENTS ELSE 0)
                 + (IF c.scale THEN CGF_SIMPLE_SCALE ELSE 0)
    IN <<flags \div 256, flags % 256, c.glyph_index \div 256, c.glyph_index % 256>>
       \o (IF c.words THEN <<c.arg1 \div 256, c.arg1 % 256, c.arg2 \div 256, c.arg2 % 256>>
           ELSE <<c.arg1, c.arg2>>)
       \o (IF c.scale THEN <<64, 0>> ELSE <<>>)

\* the bytes of a composite glyph of the components cs
RECURSIVE AllComponentBytes(_)
AllComponentBytes(cs) ==
    IF cs = <<>> THEN <<>> ELSE ComponentBytes(Head(cs)) \o AllComponentBytes(Tail(cs))
CompositeBytes(cs) == <<255, 255>> \o Zeros(8) \o AllComponentBytes(cs)

\* components: arguments of a byte or a word, with or without a scale
Components(more) ==
    [words : BOOLEAN, more : {more}, scale : BOOLEAN, glyph_index : {3},
     arg1 : {1}, arg2 : {0, 7}]

\* glyphs as they are stored: what they hold, and their bytes
StoredGlyphs ==
    {[kind |-> "Simple", components |-> <<>>, bytes |-> SimpleBytes(e, i, d[e + 1])] :
        e \in 0..1, i \in {<<>>, <<\hb0, 1>>},
        d \in {<<<<\h31>>, <<\h31, \h31>>>>, <<<<\h33, 5>>, <<\h33, \h23, 5, 2>>>>}}
    \cup {[kind |-> "Composite", components |-> <<c>>, bytes |-> CompositeBytes(<<c>>)] :
             c \in Components(FALSE)}
    \cup {[kind |-> "Composite", components |-> <<c, d>>,
           bytes |-> CompositeBytes(<<c, d>>)] :
             c \in Components(TRUE), d \in Components(FALSE)}

\* after the last glyph the file holds 0, 8, .. 8 * MaxTrail more bytes
MaxTrail == 2

\* the offsets of the 'loca' table for glyphs stored one after the other
RECURSIVE OffsetsOf(_)
OffsetsOf(gs) ==
    IF gs = <<>> THEN <<0>>
    ELSE LET rest == OffsetsOf(SubSeq(gs, 1, Len(gs) - 1))
         IN Append(rest, rest[Len(rest)] + Len(gs[Len(gs)].bytes))

RECURSIVE FileOf(_)
FileOf(gs) == IF gs = <<>> THEN <<>> ELSE Head(gs).bytes \o FileOf(Tail(gs))

\* tables of one glyph, and of a simple glyph followed by a composite one
StoredTables ==
    {<<g>> : g \in StoredGlyphs}
    \cup {<<g, h>> : g \in {s \in StoredGlyphs : s.kind = "Simple"},
                     h \in {c \in StoredGlyphs : Len(c.components) = 1}}

GlyfInit ==
    /\ LoaderIdle
    /\ ScalerIdle
    /\ fun_name = "GlyphDataTable_from_binary"
    /\ fun_arg \in {<<FileOf(gs) \o Zeros(8 * t), OffsetsOf(gs), gs>> :
                        gs \in StoredTables, t \in 0..MaxTrail}
    /\ fun_res = <<>>

ReadGlyfTable ==
    /\ fun_name = "GlyphDataTable_from_binary"
    /\ fun_res = <<>>
    /\ fun_res' = <<GlyphDataTable_from_binary(fun_arg[1], fun_arg[2], build)>>
    /\ UNCHANGED <<fun_name, fun_arg>>
    /\ UNCHANGED <<ld_vars, sc_vars>>

SpecGlyf == GlyfInit /\ [][ReadGlyfTable]_vars

\* the table has been read, or reading it has failed
GlyfRead == fun_name = "GlyphDataTable_from_binary" /\ fun_res # <<>>

\* C21: each component record of a composite glyph carries two arguments, two
\* bytes stored as arg1 and arg2 when ARGS_ARE_WORDS is clear and two words
\* when it is set, and records are read until the first without
\* MORE_COMPONENTS, each from the byte where the previous one ended.
C21_ComponentArguments ==
    (GlyfRead /\ Len(fun_arg[3]) = 1 /\ fun_arg[3][1].kind = "Composite")
    => /\ fun_res[1].kind = "Ok"
       /\ fun_res[1].glyphs[1].kind = "Composite"
       /\ [k \in 1..Len(fun_res[1].glyphs[1].components) |->
             LET c == fun_res[1].glyphs[1].components[k]
             IN <<c.glyph_index, c.arg1, c.arg2>>]
          = [k \in 1..Len(fun_arg[3][1].components) |->
               LET c == fun_arg[3][1].components[k]
               IN <<c.glyph_index, c.arg1, c.arg2>>]

\* C30: decoding glyph N reads only bytes of its extent
\* [offset[N], offset[N+1]), so a table of well-formed simple glyphs the last
\* of which ends at the end of the file is read without a short-read error.
C30_ReadsWithinExtent ==
    (GlyfRead /\ \A k \in 1..Len(fun_arg[3]) : fun_arg[3][k].kind = "Simple")
    => /\ fun_res[1].kind # "Err"
       /\ \A k \in 1..Len(fun_res[1].glyphs) :
            fun_res[1].glyphs[k].upto <= fun_arg[2][k + 1]

====
